---- MODULE Spec2Model ----
(***************************************************************************)
(* flights_metrics: the flight cleaning transforms, the enrichment joins   *)
(* and the API client, as state machines.                                  *)
(*                                                                         *)
(* Tables are sequences of rows, a row is a record keyed by column name.   *)
(* Strings are sequences of one-character strings, so that strip and       *)
(* upper are computed.  Instants are whole minutes since an epoch (UTC).   *)
(***************************************************************************)
EXTENDS Integers, Sequences, FiniteSets, Bags, TLC

VARIABLES
    flights_raw,    \* rows of raw.flights_raw, as read by flights_cleaned
    now,            \* pd.Timestamp.now() of the run
    flight_df,      \* the local flight_df of flights_cleaned
    flight_df_in,   \* flight_df as it was passed to the last transform
    flight_df_arg,  \* the table object passed to it, as it is after the call
    pc,             \* position in the asset or client call being run
    weather_cleaned,            \* the value of the asset weather_cleaned
    airports_df,                \* rows of raw.airports
    enriched_df,                \* the table enrich_with_weather returned
    flights_enriched_weather,   \* the value of that asset
    flights_enriched,           \* the table enrich_with_airports returned
    clock,          \* time.time(), in tenths of a second
    cache,          \* openmeteo_cache.sqlite: the stored responses
    call,           \* the client method running or last run
    status,         \* of that call: running, returned or raised
    exc,            \* the exception a raised call ended with
    idx,            \* the sub-request of the call (airport, or day and airport)
    attempt,        \* attempts made by the running _make_request
    response,       \* what _make_request returned, not yet read
    records,        \* all_flights or weather_records of the call
    events,         \* what the call did so far: requests, sleeps, log lines
    calls,          \* client calls started
    columns,        \* the column labels of the table at hand
    weather_raw,    \* rows of raw.weather_raw, as read by weather_cleaned
    airports_cleaned,   \* rows of stage.airports_cleaned
    metrics,        \* rows of gold.flight_weather_airport_metrics
    runs,           \* runs of populate_flight_weather_airport_metrics
    check_result,   \* what the last data-quality check returned
    stage_flights_cleaned,  \* rows of stage.flights_cleaned
    started,        \* the assets of the job run that have started
    finished,       \* the assets of the job run that have finished
    days_back,      \* config["aviation_edge"]["days_back"]
    window,         \* start_date and end_date of get_aviation_edge_flights
    params          \* the params of the flight requests the call has sent

flightVars == <<flights_raw, now, flight_df, flight_df_in, flight_df_arg>>
enrichVars ==
    <<weather_cleaned, airports_df, enriched_df, flights_enriched_weather,
      flights_enriched>>

apiVars ==
    <<clock, cache, call, status, exc, idx, attempt, response, records, events,
      calls>>

stageVars ==
    <<columns, weather_raw, airports_cleaned, metrics, runs, check_result,
      stage_flights_cleaned>>

jobVars == <<started, finished>>

requestVars == <<days_back, window, params>>

vars ==
    <<flightVars, pc, enrichVars, apiVars, stageVars, jobVars, requestVars>>

----------------------------------------------------------------------------
(* Bounds *)

MaxRows == 3

----------------------------------------------------------------------------
(* Missing values and strings *)

\* None / NaN in an object column
None == <<"<NA>">>

\* NaT in a datetime column
NaT == -1000000

NoneStr == <<"N", "o", "n", "e">>

LowerChars ==
    <<"a", "c", "d", "e", "f", "g", "i", "j", "k", "n", "o", "r", "t", "y">>
UpperChars ==
    <<"A", "C", "D", "E", "F", "G", "I", "J", "K", "N", "O", "R", "T", "Y">>

\* what str.strip() removes
Whitespace == {" ", "\t", "\n"}

UpperChar(c) ==
    IF \E i \in 1..Len(LowerChars) : LowerChars[i] = c
    THEN UpperChars[CHOOSE i \in 1..Len(LowerChars) : LowerChars[i] = c]
    ELSE c

\* Series.str.upper: missing values stay missing
StrUpper(v) == IF v = None THEN None ELSE [i \in 1..Len(v) |-> UpperChar(v[i])]

RECURSIVE LStrip(_)
LStrip(s) == IF s # <<>> /\ Head(s) \in Whitespace THEN LStrip(Tail(s)) ELSE s

RECURSIVE RStrip(_)
RStrip(s) ==
    IF s # <<>> /\ s[Len(s)] \in Whitespace
    THEN RStrip(SubSeq(s, 1, Len(s) - 1))
    ELSE s

\* Series.astype(str): a missing value becomes the text "None"
AsTypeStr(v) == IF v = None THEN NoneStr ELSE v

\* Series.astype(str).str.strip()
AsTypeStrStrip(v) == LStrip(RStrip(AsTypeStr(v)))

----------------------------------------------------------------------------
(* Time *)

OneDay == 1440

\* Europe/Paris wall clock is ahead of UTC
ParisOffset == 120

\* Series.dt.date of a column converted to Europe/Paris
LocalDate(t) == (t + ParisOffset) \div OneDay

----------------------------------------------------------------------------
(* Generic table helpers *)

RECURSIVE SelectRows(_, _)
SelectRows(df, keep) ==
    IF df = <<>> THEN <<>>
    ELSE IF keep[1] THEN <<Head(df)>> \o SelectRows(Tail(df), Tail(keep))
         ELSE SelectRows(Tail(df), Tail(keep))

\* DataFrame[mask]
Filter(df, Test(_)) == SelectRows(df, [i \in 1..Len(df) |-> Test(df[i])])

\* DataFrame.rename(columns=rename_map): columns outside the map keep their name
RenameRow(row, old_names, new_names) ==
    LET NewName(c) ==
            IF \E i \in 1..Len(old_names) : old_names[i] = c
            THEN new_names[CHOOSE i \in 1..Len(old_names) : old_names[i] = c]
            ELSE c
    IN  [c \in {NewName(k) : k \in DOMAIN row} |->
            row[CHOOSE k \in DOMAIN row : NewName(k) = c]]

\* DataFrame.drop(columns=..., errors="ignore")
DropColumns(df, cols) ==
    [i \in 1..Len(df) |-> [c \in (DOMAIN df[i]) \ cols |-> df[i][c]]]

\* the value v written to column col of every row (col is added when absent)
SetColumn(df, col, v) ==
    [i \in 1..Len(df) |->
        [c \in (DOMAIN df[i]) \cup {col} |-> IF c = col THEN v ELSE df[i][c]]]

\* DataFrame.drop_duplicates(): the first of equal rows is kept
RECURSIVE DropDuplicates(_)
DropDuplicates(df) ==
    IF df = <<>> THEN <<>>
    ELSE LET init == DropDuplicates(SubSeq(df, 1, Len(df) - 1))
             last == df[Len(df)]
         IN  IF \E i \in 1..Len(init) : init[i] = last THEN init
             ELSE Append(init, last)

----------------------------------------------------------------------------
(* Column renaming helpers *)

\* a letter with its case changed
SwapCaseChar(c) ==
    IF \E i \in 1..Len(UpperChars) : UpperChars[i] = c
    THEN LowerChars[CHOOSE i \in 1..Len(UpperChars) : UpperChars[i] = c]
    ELSE UpperChar(c)

\* str.lower() of one character
LowerChar(c) ==
    IF \E i \in 1..Len(UpperChars) : UpperChars[i] = c
    THEN LowerChars[CHOOSE i \in 1..Len(UpperChars) : UpperChars[i] = c]
    ELSE c

\* col.strip().lower().replace(" ", "_") of a column name, spelled as a
\* sequence of characters
standard_name(col) ==
    LET stripped == RStrip(LStrip(col))
        lower    == [i \in 1..Len(stripped) |-> LowerChar(stripped[i])]
    IN  [i \in 1..Len(lower) |-> IF lower[i] = " " THEN "_" ELSE lower[i]]

\* dataframe.columns = [standard_name(col) for col in dataframe.columns]
StandardizedColumns(cols) == [i \in 1..Len(cols) |-> standard_name(cols[i])]

\* the string of a sequence of characters
RECURSIVE Join(_)
Join(chars) == IF chars = <<>> THEN "" ELSE Head(chars) \o Join(Tail(chars))

\* the spelling of the column names of the model that are not in standard
\* form; every other column name of the flight, weather and airport tables is
\* lower case without blanks
Spelling ==
    [c \in {"Flight Number", " IATA_Code "} |->
        IF c = "Flight Number"
        THEN <<"F", "l", "i", "g", "h", "t", " ", "N", "u", "m", "b", "e", "r">>
        ELSE <<" ", "I", "A", "T", "A", "_", "C", "o", "d", "e", " ">>]

\* the standardized name of a column of a table of the model
StdName(c) ==
    IF c \in DOMAIN Spelling THEN Join(standard_name(Spelling[c])) ELSE c

standardize_column_names(dataframe) ==
    [i \in 1..Len(dataframe) |->
        [c \in {StdName(k) : k \in DOMAIN dataframe[i]} |->
            dataframe[i][CHOOSE k \in DOMAIN dataframe[i] : StdName(k) = c]]]

FlightOldNames ==
    <<"flight_number", "flight_date", "icao24", "est_departure_icao",
      "est_arrival_icao", "scheduled_time", "estimated_time", "actual_time",
      "airline", "airline_icao", "airline_iata">>

FlightNewNames ==
    <<"flight_number", "flight_date", "flight_icao", "departure_airport_icao",
      "arrival_airport_icao", "scheduled_departure_time",
      "estimated_departure_time", "actual_departure_time",
      "airline_name", "airline_icao_code", "airline_iata_code">>

rename_flight_columns(flight_df_) ==
    [i \in 1..Len(flight_df_) |->
        RenameRow(flight_df_[i], FlightOldNames, FlightNewNames)]

WeatherOldNames ==
    <<"timestamp", "temperature", "wind_speed", "precipitation", "lat", "lon",
      "iata">>

WeatherNewNames ==
    <<"observation_time", "temperature_celsius", "wind_speed_kph",
      "precipitation_mm", "latitude", "longitude", "airport_iata_code">>

rename_weather_columns(weather_df) ==
    [i \in 1..Len(weather_df) |->
        RenameRow(weather_df[i], WeatherOldNames, WeatherNewNames)]

\* pd.to_datetime(errors="coerce"), tz_localize("UTC"), tz_convert(timezone).
\* A text timestamp is <<day>> or <<day, minute of the day>>, read as UTC; an
\* empty or missing text is <<>> and gives NaT.  tz_convert changes the wall
\* clock only (see LocalDate).
ToDatetime(v) ==
    IF Len(v) = 0 THEN NaT
    ELSE IF Len(v) = 1 THEN v[1] * OneDay
    ELSE v[1] * OneDay + v[2]

standardize_time_columns(df, time_columns) ==
    [i \in 1..Len(df) |->
        [c \in DOMAIN df[i] |->
            IF c \in time_columns THEN ToDatetime(df[i][c]) ELSE df[i][c]]]

----------------------------------------------------------------------------
(* Core processing functions *)

DatetimeCols ==
    {"scheduled_departure_time", "estimated_departure_time",
     "actual_departure_time", "flight_date"}

\* the object (text) columns of the renamed flight table that hold names and
\* codes; source_timestamp is text too, has no blanks and is dropped below
StrCols ==
    {"flight_number", "flight_icao", "departure_airport_icao",
     "arrival_airport_icao", "airline_name", "airline_icao_code",
     "airline_iata_code"}

UpperCols ==
    {"flight_number", "aircraft_icao24", "departure_airport_icao",
     "arrival_airport_icao"}

CriticalCols ==
    <<"flight_number", "scheduled_departure_time", "departure_airport_icao",
      "arrival_airport_icao">>

AirlineFillCols == {"airline_name", "airline_iata_code"}

Undefined == <<"u", "n", "d", "e", "f", "i", "n", "e", "d">>

\* Series.isna() of the cell of column c
IsNA(row, c) == IF c \in DatetimeCols THEN row[c] = NaT ELSE row[c] = None

\* a date filter that keeps every row with a date
HasFlightDate(row, today) == row.flight_date # NaT

\* flight_df[flight_df["flight_date"].dt.date <= today]: a NaT date compares
\* False
NotFuture(row, today) ==
    row.flight_date # NaT /\ LocalDate(row.flight_date) <= today

\* flight_df[col].astype(str).str.strip() for every object column
StripStrings(df) ==
    [i \in 1..Len(df) |->
        [c \in DOMAIN df[i] |->
            IF c \in StrCols THEN AsTypeStrStrip(df[i][c]) ELSE df[i][c]]]

UppercaseIds(df) ==
    [i \in 1..Len(df) |->
        [c \in DOMAIN df[i] |->
            IF c \in UpperCols THEN StrUpper(df[i][c]) ELSE df[i][c]]]

\* dropna(subset=critical_cols)
HasCritical(row) == \A k \in 1..Len(CriticalCols) : ~IsNA(row, CriticalCols[k])

\* a filter that keeps a row whatever its actual time
AnyActual(row) == row.actual_departure_time = NaT \/ row.actual_departure_time # NaT

\* actual_departure_time.isna() | (actual >= scheduled)
ActualNotBeforeScheduled(row) ==
    \/ row.actual_departure_time = NaT
    \/ row.actual_departure_time >= row.scheduled_departure_time

\* flight_df[col].fillna("undefined")
FillAirline(df) ==
    [i \in 1..Len(df) |->
        [c \in DOMAIN df[i] |->
            IF c \in AirlineFillCols /\ IsNA(df[i], c) THEN Undefined
            ELSE df[i][c]]]

DroppedCols == {"created_at", "source_timestamp", "icao", "estimaed_arrival_icao"}

clean_aviation_data(raw, t) ==
    LET named    == rename_flight_columns(standardize_column_names(raw))
        timed    == standardize_time_columns(named, DatetimeCols)
        current  == Filter(timed, LAMBDA r : NotFuture(r, LocalDate(t)))
        stripped == UppercaseIds(StripStrings(current))
        complete == Filter(stripped, HasCritical)
        valid    == Filter(complete, ActualNotBeforeScheduled)
        filled   == FillAirline(valid)
        unique   == DropColumns(DropDuplicates(filled), DroppedCols)
    IN  SetColumn(SetColumn(unique, "created_at", t), "updated_at", t)

RECURSIVE Insert(_, _)
Insert(x, sorted) ==
    IF sorted = <<>> THEN <<x>>
    ELSE IF x <= Head(sorted) THEN <<x>> \o sorted
         ELSE <<Head(sorted)>> \o Insert(x, Tail(sorted))

RECURSIVE Sort(_)
Sort(xs) == IF xs = <<>> THEN <<>> ELSE Insert(Head(xs), Sort(Tail(xs)))

\* the lower of the two middle values instead of their mean
MedianLower(xs) == Sort(xs)[(Len(xs) + 1) \div 2]

\* Series.median() of timedeltas: the middle value, or the mean of the two
\* middle values (exact here: all durations are even numbers of minutes)
Median(xs) ==
    LET sorted == Sort(xs)
        n == Len(xs)
    IN  IF n % 2 = 1 THEN sorted[(n + 1) \div 2]
        ELSE (sorted[n \div 2] + sorted[n \div 2 + 1]) \div 2

RouteKey(row) == <<row.departure_airport_icao, row.arrival_airport_icao>>

\* dropna(subset=["actual_departure_time"]).groupby([departure, arrival]);
\* groupby leaves out the rows with a missing key
RouteGroup(df, key) ==
    Filter(df, LAMBDA r : /\ r.actual_departure_time # NaT
                          /\ r.departure_airport_icao # None
                          /\ r.arrival_airport_icao # None
                          /\ RouteKey(r) = key)

\* (g["actual_departure_time"] - g["scheduled_departure_time"]) of a group,
\* without the NaT differences that median() skips
Durations(group) ==
    LET timed == Filter(group, LAMBDA r : r.scheduled_departure_time # NaT)
    IN  [i \in 1..Len(timed) |->
            timed[i].actual_departure_time - timed[i].scheduled_departure_time]

HasMedian(df, key) == RouteGroup(df, key) # <<>>

MedianDuration(df, key) ==
    LET ds == Durations(RouteGroup(df, key))
    IN  IF ds = <<>> THEN NaT ELSE Median(ds)

\* the nested function impute(row)
Impute(df, row) ==
    IF row.actual_departure_time = NaT /\ HasMedian(df, RouteKey(row))
    THEN IF row.scheduled_departure_time = NaT
              \/ MedianDuration(df, RouteKey(row)) = NaT
         THEN NaT
         ELSE row.scheduled_departure_time + MedianDuration(df, RouteKey(row))
    ELSE row.actual_departure_time

impute_missing_actual_times(df) ==
    [i \in 1..Len(df) |->
        [df[i] EXCEPT !.actual_departure_time = Impute(df, df[i])]]

\* a flight exactly one day old counted as cancelled too
CancelledFromOneDay(row, t) ==
    /\ row.actual_departure_time = NaT
    /\ row.scheduled_departure_time # NaT
    /\ t - row.scheduled_departure_time >= OneDay

\* mask = actual.isna() & (now - scheduled > timedelta(days=1))
Cancelled(row, t) ==
    /\ row.actual_departure_time = NaT
    /\ row.scheduled_departure_time # NaT
    /\ t - row.scheduled_departure_time > OneDay

remove_cancelled_flights(df, t) == Filter(df, LAMBDA r : ~Cancelled(r, t))

\* Series.dt.hour and Series.dt.weekday (Monday = 0) of a Europe/Paris
\* column; day 0 of the epoch is a Thursday
LocalHour(t) == ((t + ParisOffset) % OneDay) \div 60
Weekday(t) == (LocalDate(t) + 3) % 7

\* Series.between(lo, hi): both ends included
Between(x, lo, hi) == lo <= x /\ x <= hi

add_flag_columns(df) ==
    [i \in 1..Len(df) |->
        [c \in (DOMAIN df[i])
               \cup {"is_weekend", "is_night_flight", "is_morning_flight"} |->
            CASE c = "is_weekend" ->
                    Weekday(df[i].scheduled_departure_time) >= 5
              [] c = "is_night_flight" ->
                    Between(LocalHour(df[i].scheduled_departure_time), 0, 6)
              [] c = "is_morning_flight" ->
                    Between(LocalHour(df[i].scheduled_departure_time), 6, 11)
              [] OTHER -> df[i][c]]]

\* Series.dt.round("h"): the wall clock rounded to the nearest hour, a half
\* hour to the even hour
RoundHour(t) ==
    LET local == t + ParisOffset
        quotient == local \div 60
        remainder == local % 60
        up == remainder > 30 \/ (remainder = 30 /\ quotient % 2 = 1)
    IN  (IF up THEN quotient + 1 ELSE quotient) * 60 - ParisOffset

add_nearest_hour_column(df, time_col, new_col) ==
    [i \in 1..Len(df) |->
        [c \in (DOMAIN df[i]) \cup {new_col} |->
            IF c = new_col
            THEN IF df[i][time_col] = NaT THEN NaT ELSE RoundHour(df[i][time_col])
            ELSE df[i][c]]]

----------------------------------------------------------------------------
(* Enrichment joins *)

\* a missing number
NaN == -2000000

AirportCols ==
    {"airport_name", "city", "country", "iata_code", "icao", "latitude",
     "longitude"}

NumericCols == {"latitude", "longitude"}

\* the right-hand columns of a left join without a match
NullRow(cols) == [c \in cols |-> IF c \in NumericCols THEN NaN ELSE None]

\* one row of pd.merge: the columns of the left row, then the columns of the
\* right row other than the shared key; a right column whose name the left
\* row has too gets the suffix
Combined(l, r, shared, suffix) ==
    LET RName(k) == IF k \in DOMAIN l THEN k \o suffix ELSE k
        rcols == (DOMAIN r) \ shared
    IN  [c \in (DOMAIN l) \cup {RName(k) : k \in rcols} |->
            IF c \in DOMAIN l THEN l[c]
            ELSE r[CHOOSE k \in rcols : RName(k) = c]]

\* the rows of pd.merge for one left row, in the order of the right table
MergeOne(l, right, left_on, right_on, shared, suffix) ==
    LET hits == Filter(right,
                    LAMBDA r : \A k \in 1..Len(left_on) :
                                   l[left_on[k]] = r[right_on[k]])
    IN  [j \in 1..Len(hits) |-> Combined(l, hits[j], shared, suffix)]

RECURSIVE MergeInner(_, _, _, _, _, _)
MergeInner(left, right, left_on, right_on, shared, suffix) ==
    IF left = <<>> THEN <<>>
    ELSE MergeOne(Head(left), right, left_on, right_on, shared, suffix)
         \o MergeInner(Tail(left), right, left_on, right_on, shared, suffix)

RECURSIVE MergeLeft(_, _, _, _, _)
MergeLeft(left, right, right_cols, key, suffix) ==
    IF left = <<>> THEN <<>>
    ELSE LET rows == MergeOne(Head(left), right, <<key>>, <<key>>, {key}, suffix)
         IN  (IF rows = <<>>
              THEN <<Combined(Head(left), NullRow(right_cols), {key}, suffix)>>
              ELSE rows)
             \o MergeLeft(Tail(left), right, right_cols, key, suffix)

\* Series.str.upper() on one column
UpperColumn(df, col) ==
    [i \in 1..Len(df) |-> [df[i] EXCEPT ![col] = StrUpper(df[i][col])]]

WeatherDropped ==
    {"observation_time", "airport_iata_code", "created_at_weather",
     "source_timestamp", "source_timestamp_weather"}

\* the join without the uppercasing of the weather airport code
enrich_with_weather_as_stored(flights, weather) ==
    DropColumns(
        MergeInner(flights, weather,
                   <<"rounded_scheduled_hour", "departure_airport_icao">>,
                   <<"observation_time", "airport_iata_code">>,
                   {}, "_weather"),
        WeatherDropped)

enrich_with_weather(flights, weather) ==
    DropColumns(
        MergeInner(UpperColumn(flights, "departure_airport_icao"),
                   UpperColumn(weather, "airport_iata_code"),
                   <<"rounded_scheduled_hour", "departure_airport_icao">>,
                   <<"observation_time", "airport_iata_code">>,
                   {}, "_weather"),
        WeatherDropped)

\* airports_df.rename(columns={"iata_code": key})
AirportsKeyed(airports, key) ==
    [i \in 1..Len(airports) |-> RenameRow(airports[i], <<"iata_code">>, <<key>>)]

\* the arrival airport joined with how="inner"
enrich_with_airports_inner(flights, airports) ==
    LET named == standardize_column_names(airports)
        dep == MergeLeft(flights,
                         AirportsKeyed(named, "departure_airport_icao"),
                         (AirportCols \ {"iata_code"}) \cup {"departure_airport_icao"},
                         "departure_airport_icao", "_departure_airport")
    IN  MergeInner(dep, AirportsKeyed(named, "arrival_airport_icao"),
                   <<"arrival_airport_icao">>, <<"arrival_airport_icao">>,
                   {"arrival_airport_icao"}, "_arrival_airport")

enrich_with_airports(flights, airports) ==
    LET named == standardize_column_names(airports)
        cols(key) == (AirportCols \ {"iata_code"}) \cup {key}
        dep == MergeLeft(flights,
                         AirportsKeyed(named, "departure_airport_icao"),
                         cols("departure_airport_icao"),
                         "departure_airport_icao", "_departure_airport")
    IN  MergeLeft(dep,
                  AirportsKeyed(named, "arrival_airport_icao"),
                  cols("arrival_airport_icao"),
                  "arrival_airport_icao", "_arrival_airport")

----------------------------------------------------------------------------
(* The rows of raw.flights_raw, as get_aviation_edge_flights writes them *)

CDG == <<"C", "D", "G">>
ORY == <<"O", "R", "Y">>
JFK == <<"J", "F", "K">>
AF1 == <<"A", "F", "1">>
AirFrance == <<"A", "i", "r">>

\* text[:n]
Prefix(text, n) == SubSeq(text, 1, IF Len(text) < n THEN Len(text) ELSE n)

\* dict.get(key, default)
Get(dict, key, default) == IF key \in DOMAIN dict THEN dict[key] ELSE default

\* a flattening that takes the arrival code from the departure block
flight_info_departure_only(f, t) ==
    [flight_number      |-> f.flight.number,
     flight_date        |-> Prefix(Get(f.departure, "scheduledTime", <<>>), 1),
     icao24             |-> Get(f.flight, "icaoNumber", None),
     est_departure_icao |-> Get(f.departure, "iataCode", None),
     est_arrival_icao   |-> Get(f.departure, "iataCode", None),
     scheduled_time     |-> Get(f.departure, "scheduledTime", <<>>),
     estimated_time     |-> Get(f.departure, "estimatedTime", <<>>),
     actual_time        |-> Get(f.departure, "actualTime", <<>>),
     airline            |-> Get(f.airline, "name", None),
     airline_icao       |-> Get(f.airline, "icaoCode", None),
     airline_iata       |-> Get(f.airline, "iataCode", None),
     created_at         |-> t,
     source_timestamp   |-> Get(f.departure, "scheduledTime", <<>>)]

\* the row get_aviation_edge_flights makes of one record f of a response, at
\* time t.  A missing timestamp text is written <<>>, a missing code or name
\* None.
flight_info(f, t) ==
    [flight_number      |-> f.flight.number,
     flight_date        |-> Prefix(Get(f.departure, "scheduledTime", <<>>), 1),
     icao24             |-> Get(f.flight, "icaoNumber", None),
     est_departure_icao |-> Get(f.departure, "iataCode", None),
     est_arrival_icao   |-> Get(f.arrival, "iataCode", None),
     scheduled_time     |-> Get(f.departure, "scheduledTime", <<>>),
     estimated_time     |-> Get(f.departure, "estimatedTime", <<>>),
     actual_time        |-> Get(f.departure, "actualTime", <<>>),
     airline            |-> Get(f.airline, "name", None),
     airline_icao       |-> Get(f.airline, "icaoCode", None),
     airline_iata       |-> Get(f.airline, "iataCode", None),
     created_at         |-> t,
     source_timestamp   |-> Get(f.departure, "scheduledTime", <<>>)]

\* a record of the flight API; a timestamp the API does not give is absent
\* from the departure block, a code or name it does not give is null
ApiFlight(number, scheduled, actual, dep, arr, airline) ==
    LET times == [scheduledTime |-> scheduled, estimatedTime |-> scheduled,
                  actualTime |-> actual]
        given == {k \in DOMAIN times : times[k] # <<>>}
    IN  [flight    |-> [number |-> number, icaoNumber |-> <<"A", "F", "R", "1">>],
         departure |-> [k \in given \cup {"iataCode"} |->
                            IF k = "iataCode" THEN dep ELSE times[k]],
         arrival   |-> [iataCode |-> arr],
         airline   |-> [name |-> airline, icaoCode |-> <<"A", "F", "R">>,
                        iataCode |-> <<"A", "F">>]]

FlightInfo(number, scheduled, actual, dep, arr, airline, created) ==
    flight_info(ApiFlight(number, scheduled, actual, dep, arr, airline), created)

\* the text of the timestamp `late` minutes after a scheduled one; late = 0
\* stands for a flight without an actual time
Later(scheduled, late) ==
    IF late = 0 THEN <<>> ELSE <<scheduled[1], scheduled[2] + late>>

\* well-formed records: from CDG at two scheduled times, departed 30 or 50
\* minutes late or without an actual time; from ORY at one scheduled time
BaseRows ==
    {FlightInfo(AF1, sched, Later(sched, late), CDG, JFK, AirFrance, 0) :
        sched \in {<<1, 0>>, <<2, 720>>}, late \in {0, 30, 50}}
    \cup
    {FlightInfo(AF1, <<1, 0>>, Later(<<1, 0>>, late), ORY, JFK, AirFrance, 0) :
        late \in {0, 30}}

\* records with one defect each
DirtyRows ==
    {FlightInfo(None, <<1, 0>>, <<1, 30>>, CDG, JFK, AirFrance, 0),
     FlightInfo(AF1, <<>>, <<1, 30>>, CDG, JFK, AirFrance, 0),
     FlightInfo(AF1, <<5, 0>>, <<>>, CDG, JFK, AirFrance, 0),
     FlightInfo(AF1, <<1, 0>>, <<0, 1430>>, CDG, JFK, AirFrance, 0),
     FlightInfo(AF1, <<1, 0>>, <<1, 30>>, None, JFK, AirFrance, 0),
     FlightInfo(AF1, <<1, 0>>, <<1, 30>>, <<" ", "c", "d", "g">>, JFK, AirFrance, 0),
     FlightInfo(AF1, <<1, 0>>, <<1, 30>>, CDG, None, AirFrance, 0),
     FlightInfo(AF1, <<1, 0>>, <<1, 30>>, CDG, JFK, None, 0),
     FlightInfo(AF1, <<1, 0>>, <<1, 30>>, CDG, JFK, AirFrance, 1)}

RawRows == BaseRows \cup DirtyRows

RawTables == UNION {[1..n -> RawRows] : n \in 0..MaxRows}

\* the run starts at 00:00 UTC of day 2 or of day 3: the flight scheduled on
\* day 1 at 00:00 is then exactly one day or two days old, the one scheduled
\* on day 2 at 12:00 is still to come or 12 hours old
NowChoices == {2 * OneDay, 3 * OneDay}

----------------------------------------------------------------------------
(* flights_cleaned: the transforms of the asset, in its order *)

\* the enrichment assets have not run
EnrichIdle ==
    /\ weather_cleaned = <<>>
    /\ airports_df = <<>>
    /\ enriched_df = <<>>
    /\ flights_enriched_weather = <<>>
    /\ flights_enriched = <<>>

\* no data-quality check has run
NoResult == [name |-> "none", outcome |-> "none", metadata |-> <<>>]

\* nothing has run on the stage and gold tables
StageIdle ==
    /\ columns = <<>>
    /\ weather_raw = <<>>
    /\ airports_cleaned = <<>>
    /\ metrics = EmptyBag
    /\ runs = 0
    /\ check_result = NoResult
    /\ stage_flights_cleaned = <<>>

\* days_back of the configuration the client tests use
AviationDaysBack == 2

\* no flight request has been sent
RequestIdle ==
    /\ days_back = AviationDaysBack
    /\ window = <<>>
    /\ params = <<>>

\* no job run has started an asset
JobIdle ==
    /\ started = {}
    /\ finished = {}

\* no client call has been made
ApiIdle ==
    /\ clock = 0
    /\ cache = <<>>
    /\ call = "none"
    /\ status = "idle"
    /\ exc = "none"
    /\ idx = 0
    /\ attempt = 0
    /\ response = <<>>
    /\ records = <<>>
    /\ events = <<>>
    /\ calls = 0

Init ==
    /\ flights_raw \in RawTables
    /\ now \in NowChoices
    /\ flight_df = <<>>
    /\ flight_df_in = <<>>
    /\ flight_df_arg = <<>>
    /\ pc = "read_sql"
    /\ EnrichIdle
    /\ ApiIdle
    /\ JobIdle
    /\ RequestIdle
    /\ StageIdle

CleanAviationData ==
    /\ pc = "read_sql"
    /\ flight_df_in' = flights_raw
    /\ flight_df_arg' = standardize_column_names(flights_raw)
    /\ flight_df' = clean_aviation_data(flights_raw, now)
    /\ pc' = "cleaned"
    /\ UNCHANGED <<flights_raw, now, enrichVars, apiVars, jobVars, stageVars,
                   requestVars>>

ImputeMissingActualTimes ==
    /\ pc = "cleaned"
    /\ flight_df_in' = flight_df
    /\ flight_df_arg' = impute_missing_actual_times(flight_df)
    /\ flight_df' = impute_missing_actual_times(flight_df)
    /\ pc' = "imputed"
    /\ UNCHANGED <<flights_raw, now, enrichVars, apiVars, jobVars, stageVars,
                   requestVars>>

RemoveCancelledFlights ==
    /\ pc = "imputed"
    /\ flight_df_in' = flight_df
    /\ flight_df_arg' = flight_df
    /\ flight_df' = remove_cancelled_flights(flight_df, now)
    /\ pc' = "filtered"
    /\ UNCHANGED <<flights_raw, now, enrichVars, apiVars, jobVars, stageVars,
                   requestVars>>

AddFlagColumns ==
    /\ pc = "filtered"
    /\ flight_df_in' = flight_df
    /\ flight_df_arg' = add_flag_columns(flight_df)
    /\ flight_df' = add_flag_columns(flight_df)
    /\ pc' = "flagged"
    /\ UNCHANGED <<flights_raw, now, enrichVars, apiVars, jobVars, stageVars,
                   requestVars>>

\* add_nearest_hour_column, rename_weather_columns, standardize_column_names
AddNearestHourColumn ==
    /\ pc = "flagged"
    /\ flight_df_in' = flight_df
    /\ flight_df_arg' =
            add_nearest_hour_column(flight_df, "scheduled_departure_time",
                                    "rounded_scheduled_hour")
    /\ flight_df' =
            standardize_column_names(rename_weather_columns(
                add_nearest_hour_column(flight_df, "scheduled_departure_time",
                                        "rounded_scheduled_hour")))
    /\ pc' = "flights_cleaned"
    /\ UNCHANGED <<flights_raw, now, enrichVars, apiVars, jobVars, stageVars,
                   requestVars>>

Next ==
    \/ CleanAviationData
    \/ ImputeMissingActualTimes
    \/ RemoveCancelledFlights
    \/ AddFlagColumns
    \/ AddNearestHourColumn

Spec == Init /\ [][Next]_vars

----------------------------------------------------------------------------
(* flights_enriched_weather and flights_enriched_weather_airports *)

MaxFlights == 2
MaxWeather == 2
MaxAirports == 2

\* the whole of flights_cleaned
FlightsCleaned(raw, t) ==
    standardize_column_names(rename_weather_columns(
        add_nearest_hour_column(
            add_flag_columns(remove_cancelled_flights(
                impute_missing_actual_times(clean_aviation_data(raw, t)), t)),
            "scheduled_departure_time", "rounded_scheduled_hour")))

\* flights from CDG at day 1 00:20 and day 2 12:00, from ORY at day 1 00:20
EnrichRawRows ==
    {FlightInfo(AF1, <<1, 20>>, <<1, 50>>, CDG, JFK, AirFrance, 0),
     FlightInfo(AF1, <<2, 720>>, <<2, 750>>, CDG, JFK, AirFrance, 0),
     FlightInfo(AF1, <<1, 20>>, <<1, 50>>, ORY, JFK, AirFrance, 0)}

\* a row of the asset weather_cleaned
WeatherRow(time, code, temperature) ==
    [observation_time    |-> time,
     temperature_celsius |-> temperature,
     wind_speed_kph      |-> 12,
     precipitation_mm    |-> 0,
     latitude            |-> 49,
     longitude           |-> 2,
     airport_iata_code   |-> code,
     source_timestamp    |-> <<time \div OneDay, time % OneDay>>,
     created_at          |-> 2 * OneDay,
     updated_at          |-> 2 * OneDay]

\* observations of day 1 00:00 at "cdg" and at ORY, of day 2 12:00 at CDG
WeatherRows ==
    {WeatherRow(OneDay, <<"c", "d", "g">>, 10),
     WeatherRow(2 * OneDay + 720, CDG, 20),
     WeatherRow(OneDay, ORY, 30)}

\* a row of raw.airports
AirportRow(name, city, country, code, lat, lon) ==
    [airport_name |-> name, city |-> city, country |-> country,
     iata_code |-> code, icao |-> <<"K">> \o code,
     latitude |-> lat, longitude |-> lon]

AirportRows ==
    {AirportRow(<<"R", "o", "i", "s", "s", "y">>, <<"P", "a", "r", "i", "s">>,
                <<"F", "R">>, CDG, 49, 2),
     AirportRow(<<"K", "e", "n", "n", "e", "d", "y">>, <<"N", "Y">>,
                <<"U", "S">>, JFK, 40, -73)}

Tables(rows, n) == UNION {[1..k -> rows] : k \in 0..n}

InitEnrich ==
    /\ flights_raw \in Tables(EnrichRawRows, MaxFlights)
    /\ now = 2 * OneDay
    /\ flight_df = FlightsCleaned(flights_raw, now)
    /\ flight_df_in = <<>>
    /\ flight_df_arg = <<>>
    /\ pc = "flights_cleaned"
    /\ weather_cleaned \in Tables(WeatherRows, MaxWeather)
    /\ airports_df \in Tables(AirportRows, MaxAirports)
    /\ enriched_df = <<>>
    /\ flights_enriched_weather = <<>>
    /\ flights_enriched = <<>>
    /\ ApiIdle
    /\ JobIdle
    /\ RequestIdle
    /\ StageIdle

\* the asset flights_enriched_weather: enrich_with_weather, then the drop of
\* the columns the asset does not pass on
FlightsEnrichedWeather ==
    /\ pc = "flights_cleaned"
    /\ enriched_df' = enrich_with_weather(flight_df, weather_cleaned)
    /\ flights_enriched_weather' =
            DropColumns(enriched_df',
                        {"created_at", "source_timestamp", "timestamp", "iata"})
    /\ pc' = "enriched_weather"
    /\ UNCHANGED <<flightVars, weather_cleaned, airports_df, flights_enriched,
                   apiVars, jobVars, stageVars,
                   requestVars>>

\* the asset flights_enriched_weather_airports
FlightsEnrichedWeatherAirports ==
    /\ pc = "enriched_weather"
    /\ flights_enriched' =
            enrich_with_airports(flights_enriched_weather, airports_df)
    /\ pc' = "enriched_airports"
    /\ UNCHANGED <<flightVars, weather_cleaned, airports_df, enriched_df,
                   flights_enriched_weather, apiVars, jobVars, stageVars,
                   requestVars>>

NextEnrich == FlightsEnrichedWeather \/ FlightsEnrichedWeatherAirports

SpecEnrich == InitEnrich /\ [][NextEnrich]_vars

----------------------------------------------------------------------------
(* ApiClient: retried, rate-limited and cached HTTP fetches.  The clock *)
(* counts tenths of a second. *)

MaxCalls == 2

MaxAttempts == 3
RetryWait == 10
AviationRateLimitDelay == 3
WeatherRateLimitDelay == 2
TtlCacheSeconds == 3600
WeatherDaysBack == 1
HourlyPeriods == 24

Ttl == TtlCacheSeconds * 10
TicksPerDay == 24 * 3600 * 10

\* config["aviation_edge"]["airports"]
ConfiguredAirports == <<CDG, ORY>>

\* constants.airports.ILE_DE_FRANCE_AIRPORTS
ILE_DE_FRANCE_AIRPORTS ==
    <<[iata |-> CDG, lat |-> 49, lon |-> 2], [iata |-> ORY, lat |-> 48, lon |-> 2]>>

\* datetime.now().date()
Today(t) == t \div TicksPerDay

\* the sub-requests of get_weather_raw_for_ile_de_france, in loop order:
\* for i in range(days_back), for airport in airports
WeatherPlan ==
    [k \in 1..(WeatherDaysBack * Len(ILE_DE_FRANCE_AIRPORTS)) |->
        [i       |-> (k - 1) \div Len(ILE_DE_FRANCE_AIRPORTS),
         airport |-> ILE_DE_FRANCE_AIRPORTS[((k - 1) % Len(ILE_DE_FRANCE_AIRPORTS)) + 1]]]

\* the number of sub-requests of a call
SubRequests(c) ==
    IF c = "flights" THEN Len(ConfiguredAirports) ELSE Len(WeatherPlan)

\* the URL and parameters of weather sub-request k of a call made on day
\* `today`: the endpoint and the hourly parameters are the same for all
CacheKey(k, today) ==
    <<WeatherPlan[k].airport.lat, WeatherPlan[k].airport.lon,
      today - WeatherPlan[k].i>>

\* a cache whose responses never expire
FreshForever(key, t) == key \in DOMAIN cache

\* CachedSession: a stored response answers until expire_after has passed
Fresh(key, t) == key \in DOMAIN cache /\ t < cache[key].at + Ttl

\* the cache after a successful remote answer
Store(key, json, t) ==
    [k \in DOMAIN cache \cup {key} |->
        IF k = key THEN [at |-> t, json |-> json] ELSE cache[k]]

\* -------- what the remote services may answer with status 200 --------
HourlySeries == [h \in 1..HourlyPeriods |-> h]

HourlyKeys == {"temperature_2m", "windspeed_10m", "precipitation"}

WeatherJson(keys) == [hourly |-> [k \in keys |-> HourlySeries]]

WeatherResponses ==
    {[latitude |-> 49]} \cup
    {WeatherJson(keys) : keys \in {HourlyKeys, HourlyKeys \ {"temperature_2m"},
                                   HourlyKeys \ {"windspeed_10m"},
                                   HourlyKeys \ {"precipitation"}}}

FullFlight == ApiFlight(AF1, <<1, 600>>, <<1, 630>>, CDG, JFK, AirFrance)

NoActualFlight == ApiFlight(AF1, <<1, 600>>, <<>>, CDG, JFK, AirFrance)

\* the record f without its block `key`
WithoutBlock(f, key) == [k \in DOMAIN f \ {key} |-> f[k]]

FlightResponses ==
    {<<>>, <<FullFlight, NoActualFlight>>,
     <<FullFlight, WithoutBlock(FullFlight, "airline")>>}

Responses(c) == IF c = "flights" THEN FlightResponses ELSE WeatherResponses

\* the first multiple of `period` after t
NextMultiple(t, period) == ((t \div period) + 1) * period

\* when a client call may start: the first one at once, a later one at the
\* next half or full cache lifetime
StartTimes ==
    IF calls = 0
    THEN {clock}
    ELSE {NextMultiple(clock, Ttl \div 2), NextMultiple(clock, Ttl)}

\* -------- the trace of a call --------
Event(kind, remote, ok, secs) ==
    [kind |-> kind, req |-> idx, remote |-> remote, ok |-> ok, secs |-> secs,
     at |-> clock]

Log(level) == Event(level, FALSE, TRUE, 0)

----------------------------------------------------------------------------
(* ApiClient: the calls, one action per step of a call *)

\* the flight records of a response up to the first one the flattening
\* cannot read: f["flight"]["number"], f["departure"], f["arrival"] and
\* f["airline"] are subscripted, every other field is read with .get
Readable(f) ==
    /\ {"flight", "departure", "arrival", "airline"} \subseteq DOMAIN f
    /\ "number" \in DOMAIN f.flight

FirstUnreadable(flights) ==
    IF \A k \in 1..Len(flights) : Readable(flights[k])
    THEN Len(flights) + 1
    ELSE CHOOSE k \in 1..Len(flights) :
            /\ ~Readable(flights[k])
            /\ \A j \in 1..(k - 1) : Readable(flights[j])

\* the rows appended to all_flights for one response
Flattened(flights, t) ==
    [k \in 1..(FirstUnreadable(flights) - 1) |-> flight_info(flights[k], t)]

\* the list get_weather_raw_for_coords returns for a complete response
hourly_data(data, lat, lon, day, t) ==
    [h \in 1..HourlyPeriods |->
        [timestamp        |-> day * OneDay + (h - 1) * 60,
         temperature      |-> data.hourly["temperature_2m"][h],
         wind_speed       |-> data.hourly["windspeed_10m"][h],
         precipitation    |-> data.hourly["precipitation"][h],
         lat              |-> lat,
         lon              |-> lon,
         created_at       |-> t,
         source_timestamp |-> <<day, (h - 1) * 60>>]]

\* record.update(...) of get_weather_raw_for_ile_de_france
Updated(record, airport, day, t) ==
    [c \in DOMAIN record \cup {"iata"} |->
        CASE c = "iata" -> airport.iata
          [] c = "source_timestamp" -> <<day>>
          [] c = "created_at" -> t
          [] OTHER -> record[c]]

\* the call moves to its next sub-request, or returns its table
NextSubRequest(first) ==
    IF idx < SubRequests(call)
    THEN /\ idx' = idx + 1
         /\ attempt' = 0
         /\ pc' = first
         /\ UNCHANGED <<status, exc>>
    ELSE /\ pc' = "idle"
         /\ status' = "returned"
         /\ UNCHANGED <<idx, attempt, exc>>

\* an exception leaves the call
Raise(e) ==
    /\ pc' = "idle"
    /\ status' = "raised"
    /\ exc' = e
    /\ UNCHANGED <<idx, attempt>>

\* get_aviation_edge_flights is called
StartFlights ==
    /\ pc = "idle"
    /\ calls < MaxCalls
    /\ clock' \in StartTimes
    /\ calls' = calls + 1
    /\ call' = "flights"
    /\ status' = "running"
    /\ exc' = "none"
    /\ idx' = 1
    /\ attempt' = 0
    /\ response' = <<>>
    /\ records' = <<>>
    /\ events' = <<>>
    /\ pc' = "request"
    /\ UNCHANGED <<cache, flightVars, enrichVars,
                   stageVars, jobVars,
                   requestVars>>

\* get_weather_raw_for_ile_de_france is called
StartWeather ==
    /\ pc = "idle"
    /\ calls < MaxCalls
    /\ clock' \in StartTimes
    /\ calls' = calls + 1
    /\ call' = "weather"
    /\ status' = "running"
    /\ exc' = "none"
    /\ idx' = 1
    /\ attempt' = 0
    /\ response' = <<>>
    /\ records' = <<>>
    /\ events' = <<>>
    /\ pc' = "rate_limit"
    /\ UNCHANGED <<cache, flightVars, enrichVars,
                   stageVars, jobVars,
                   requestVars>>

\* get_weather_raw_for_coords without its sleep
WeatherRateLimitSkipped ==
    /\ pc = "rate_limit"
    /\ pc' = "request"
    /\ UNCHANGED <<clock, events, cache, call, status, exc, idx, attempt,
                   response, records, calls, flightVars, enrichVars,
                   stageVars, jobVars,
                   requestVars>>

\* get_weather_raw_for_coords starts: time.sleep(weather_rate_limit_delay)
WeatherRateLimit ==
    /\ pc = "rate_limit"
    /\ clock' = clock + WeatherRateLimitDelay
    /\ events' = Append(events, Event("rate_limit", FALSE, TRUE, WeatherRateLimitDelay))
    /\ pc' = "request"
    /\ UNCHANGED <<cache, call, status, exc, idx, attempt, response, records,
                   calls, flightVars, enrichVars,
                   stageVars, jobVars,
                   requestVars>>

\* the weather session holds a fresh response for the request
Cached ==
    call = "weather" /\ Fresh(CacheKey(idx, Today(clock)), clock)

\* an attempt of _make_request that the cache answers
CachedGet ==
    /\ pc = "request"
    /\ Cached
    /\ response' = cache[CacheKey(idx, Today(clock))].json
    /\ attempt' = attempt + 1
    /\ events' = Append(events, Event("get", FALSE, TRUE, 0))
    /\ pc' = "process"
    /\ UNCHANGED <<clock, cache, call, status, exc, idx, records, calls,
                   flightVars, enrichVars,
                   stageVars, jobVars,
                   requestVars>>

\* an attempt of _make_request that the remote service answers with 200
RemoteGetOk ==
    /\ pc = "request"
    /\ ~Cached
    /\ \E json \in Responses(call) :
        /\ response' = json
        /\ cache' = IF call = "weather"
                    THEN Store(CacheKey(idx, Today(clock)), json, clock)
                    ELSE cache
    /\ attempt' = attempt + 1
    /\ events' = Append(events, Event("get", TRUE, TRUE, 0))
    /\ pc' = "process"
    /\ UNCHANGED <<clock, call, status, exc, idx, records, calls, flightVars, enrichVars,
                   stageVars, jobVars,
                   requestVars>>

\* a failed attempt retried at once
RemoteGetFailsNoWait ==
    /\ pc = "request"
    /\ ~Cached
    /\ attempt + 1 < MaxAttempts
    /\ attempt' = attempt + 1
    /\ events' = Append(events, Event("get", TRUE, FALSE, 0))
    /\ UNCHANGED <<pc, clock, cache, call, status, exc, idx, response, records,
                   calls, flightVars, enrichVars,
                   stageVars, jobVars,
                   requestVars>>

\* an attempt that fails (raise_for_status or a connection error) and is
\* retried after wait_fixed(1)
RemoteGetFails ==
    /\ pc = "request"
    /\ ~Cached
    /\ attempt + 1 < MaxAttempts
    /\ attempt' = attempt + 1
    /\ clock' = clock + RetryWait
    /\ events' = events \o <<Event("get", TRUE, FALSE, 0),
                             Event("backoff", FALSE, TRUE, RetryWait)>>
    /\ UNCHANGED <<pc, cache, call, status, exc, idx, response, records, calls,
                   flightVars, enrichVars,
                   stageVars, jobVars,
                   requestVars>>

\* the last attempt fails: stop_after_attempt(3) raises tenacity.RetryError,
\* which is no requests.RequestException, so that neither method catches it
RemoteGetExhausted ==
    /\ pc = "request"
    /\ ~Cached
    /\ attempt + 1 = MaxAttempts
    /\ events' = Append(events, Event("get", TRUE, FALSE, 0))
    /\ pc' = "idle"
    /\ status' = "raised"
    /\ exc' = "RetryError"
    /\ attempt' = attempt + 1
    /\ UNCHANGED <<clock, cache, call, idx, response, records, calls,
                   flightVars, enrichVars,
                   stageVars, jobVars,
                   requestVars>>

\* get_aviation_edge_flights reads the response for one airport, sleeps and
\* goes on
FlightsProcess ==
    /\ pc = "process"
    /\ call = "flights"
    /\ records' = records \o Flattened(response, clock)
    /\ IF FirstUnreadable(response) <= Len(response)
       THEN /\ Raise("KeyError")
            /\ events' = Append(events, Log("info"))
            /\ UNCHANGED clock
       ELSE /\ clock' = clock + AviationRateLimitDelay
            /\ events' = events \o <<Log("info"),
                   Event("rate_limit", FALSE, TRUE, AviationRateLimitDelay)>>
            /\ NextSubRequest("request")
    /\ UNCHANGED <<cache, call, response, calls, flightVars, enrichVars,
                   stageVars, jobVars,
                   requestVars>>

\* get_weather_raw_for_coords reads the response, and
\* get_weather_raw_for_ile_de_france appends what it returned
WeatherProcess ==
    /\ pc = "process"
    /\ call = "weather"
    /\ LET sub == WeatherPlan[idx]
           day == Today(clock) - sub.i
       IN  IF "hourly" \notin DOMAIN response
              \/ "temperature_2m" \notin DOMAIN response.hourly
           THEN /\ events' = Append(events, Log("warning"))
                /\ records' = records
                /\ NextSubRequest("rate_limit")
           ELSE IF ~(HourlyKeys \subseteq DOMAIN response.hourly)
           THEN /\ Raise("KeyError")
                /\ UNCHANGED <<events, records>>
           ELSE /\ records' = records \o
                       [h \in 1..HourlyPeriods |->
                           Updated(hourly_data(response, sub.airport.lat,
                                               sub.airport.lon, day, clock)[h],
                                   sub.airport, day, clock)]
                /\ UNCHANGED events
                /\ NextSubRequest("rate_limit")
    /\ UNCHANGED <<clock, cache, call, response, calls, flightVars, enrichVars,
                   stageVars, jobVars,
                   requestVars>>

InitApi ==
    /\ flights_raw = <<>>
    /\ now = 0
    /\ flight_df = <<>>
    /\ flight_df_in = <<>>
    /\ flight_df_arg = <<>>
    /\ pc = "idle"
    /\ EnrichIdle
    /\ ApiIdle
    /\ JobIdle
    /\ RequestIdle
    /\ StageIdle

NextApi ==
    \/ StartFlights
    \/ StartWeather
    \/ WeatherRateLimit
    \/ CachedGet
    \/ RemoteGetOk
    \/ RemoteGetFails
    \/ RemoteGetExhausted
    \/ FlightsProcess
    \/ WeatherProcess

SpecApi == InitApi /\ [][NextApi]_vars

----------------------------------------------------------------------------
(* standardize_column_names, applied and applied again *)

MaxNameLen == 3

NameChars == {" ", "\t", "A", "a"}

\* the column names a table may come with
Names == UNION {[1..n -> NameChars] : n \in 0..MaxNameLen}

\* a table with two columns of any names
InitNames ==
    /\ flights_raw = <<>>
    /\ now = 0
    /\ flight_df = <<>>
    /\ flight_df_in = <<>>
    /\ flight_df_arg = <<>>
    /\ pc = "names_raw"
    /\ EnrichIdle
    /\ ApiIdle
    /\ JobIdle
    /\ RequestIdle
    /\ columns \in Names \X Names
    /\ weather_raw = <<>>
    /\ airports_cleaned = <<>>
    /\ metrics = EmptyBag
    /\ runs = 0
    /\ check_result = NoResult
    /\ stage_flights_cleaned = <<>>

\* dataframe = standardize_column_names(dataframe), a first and a second time
StandardizeColumnNames ==
    /\ pc \in {"names_raw", "names_once"}
    /\ columns' = StandardizedColumns(columns)
    /\ pc' = IF pc = "names_raw" THEN "names_once" ELSE "names_twice"
    /\ UNCHANGED <<flightVars, enrichVars, apiVars, jobVars, weather_raw,
                   airports_cleaned, metrics, runs, check_result,
                   stage_flights_cleaned,
                   requestVars>>

NextNames == StandardizeColumnNames

SpecNames == InitNames /\ [][NextNames]_vars

----------------------------------------------------------------------------
(* airports_cleaned and the gold metrics *)

MaxRuns == 2

\* clean_airport_data: the kept columns, trimmed text, the stamps
AirportKeptCols ==
    {"airport_name", "city", "country", "iata_code", "latitude", "longitude"}

clean_airport_data(airports, t) ==
    [i \in 1..Len(airports) |->
        [c \in AirportKeptCols \cup {"created_at", "updated_at"} |->
            IF c \in {"created_at", "updated_at"} THEN t
            ELSE IF c \in NumericCols THEN airports[i][c]
            ELSE AsTypeStrStrip(airports[i][c])]]

\* DATE_TRUNC('day', ts)::date, for a session whose time zone is UTC
FlightDay(ts) == ts \div OneDay

\* what a LEFT JOIN gives for the columns of w and of a without a match
NullWeather ==
    [temperature_celsius |-> NaN, wind_speed_kph |-> NaN, precipitation_mm |-> NaN]

NullAirport == [airport_name |-> None]

\* FROM f LEFT JOIN w ON ... LEFT JOIN a ON ...: the joined rows of flight f
JoinedFor(f, weather, airports) ==
    LET wm == SelectSeq(weather, LAMBDA w :
                  /\ f.rounded_scheduled_hour = w.observation_time
                  /\ f.departure_airport_icao = w.airport_iata_code)
        am == SelectSeq(airports, LAMBDA a :
                  f.departure_airport_icao = a.iata_code)
        ws == IF wm = <<>> THEN <<NullWeather>> ELSE wm
        as == IF am = <<>> THEN <<NullAirport>> ELSE am
    IN  [n \in 1..(Len(ws) * Len(as)) |->
            [f |-> f,
             w |-> ws[((n - 1) \div Len(as)) + 1],
             a |-> as[((n - 1) % Len(as)) + 1]]]

RECURSIVE Joined(_, _, _)
Joined(flights, weather, airports) ==
    IF flights = <<>> THEN <<>>
    ELSE JoinedFor(Head(flights), weather, airports)
            \o Joined(Tail(flights), weather, airports)

\* GROUP BY 1, 2, 3, 4, 5
GroupKey(r) ==
    <<FlightDay(r.f.scheduled_departure_time), r.a.airport_name,
      r.f.departure_airport_icao, r.f.airline_name, r.f.airline_iata_code>>

RECURSIVE SumSeq(_)
SumSeq(xs) == IF xs = <<>> THEN 0 ELSE Head(xs) + SumSeq(Tail(xs))

\* a / b rounded to the nearest whole number, a half away from zero
RoundDiv(a, b) ==
    IF a >= 0 THEN (2 * a + b) \div (2 * b) ELSE 0 - ((2 * (0 - a) + b) \div (2 * b))

\* ROUND(AVG(x), 2) in hundredths: NULL values are left out, and the average
\* of none is NULL
Avg2(xs) ==
    LET given == SelectSeq(xs, LAMBDA x : x # NaN)
    IN  IF given = <<>> THEN NaN ELSE RoundDiv(100 * SumSeq(given), Len(given))

\* COUNT(*) FILTER (WHERE ...)
CountWhere(G, keep) == Cardinality({n \in 1..Len(G) : keep[n]})

\* EXTRACT(EPOCH FROM (actual - scheduled)) / 60, NULL without an actual time
DelayMin(f) ==
    IF f.actual_departure_time = NaT THEN NaN
    ELSE f.actual_departure_time - f.scheduled_departure_time

\* the row the SELECT gives for the group G of joined rows
MetricRow(G) ==
    LET delay == [n \in 1..Len(G) |-> DelayMin(G[n].f)]
    IN  [flight_day |-> GroupKey(G[1])[1],
         airport_name |-> GroupKey(G[1])[2],
         departure_airport_icao_code |-> GroupKey(G[1])[3],
         airline_name |-> GroupKey(G[1])[4],
         airline_iata_code |-> GroupKey(G[1])[5],
         total_flights |-> Len(G),
         completed_flights |->
            CountWhere(G, [n \in 1..Len(G) |-> G[n].f.actual_departure_time # NaT]),
         avg_delay_min |-> Avg2(delay),
         on_time_percent |->
            RoundDiv(10000 * CountWhere(G, [n \in 1..Len(G) |->
                                    delay[n] # NaN /\ delay[n] <= 15]), Len(G)),
         extreme_weather_flights |->
            CountWhere(G, [n \in 1..Len(G) |->
                \/ (G[n].w.wind_speed_kph # NaN /\ G[n].w.wind_speed_kph > 25)
                \/ (G[n].w.temperature_celsius # NaN
                        /\ (G[n].w.temperature_celsius < -10
                            \/ G[n].w.temperature_celsius > 40))]),
         avg_temperature_c |->
            Avg2([n \in 1..Len(G) |-> G[n].w.temperature_celsius]),
         avg_wind_speed_kph |-> Avg2([n \in 1..Len(G) |-> G[n].w.wind_speed_kph]),
         avg_precipitation_mm |->
            Avg2([n \in 1..Len(G) |-> G[n].w.precipitation_mm]),
         night_flight_count |->
            CountWhere(G, [n \in 1..Len(G) |-> G[n].f.is_night_flight]),
         day_flight_count |->
            CountWhere(G, [n \in 1..Len(G) |-> ~G[n].f.is_night_flight])]

\* the rows of the SELECT
MetricRows(flights, weather, airports) ==
    LET J == Joined(flights, weather, airports)
    IN  {MetricRow(SelectSeq(J, LAMBDA r : GroupKey(r) = k)) :
            k \in {GroupKey(J[n]) : n \in 1..Len(J)}}

\* raw flights of one day from CDG (10 and 30 minutes late, and one scheduled
\* at 06:30 Paris time) and from ORY (one on time, one without actual time)
GoldRawRows ==
    {FlightInfo(AF1, <<1, 20>>, <<1, 30>>, CDG, JFK, AirFrance, 0),
     FlightInfo(AF1, <<1, 40>>, <<1, 70>>, CDG, JFK, AirFrance, 0),
     FlightInfo(AF1, <<1, 270>>, <<1, 270>>, CDG, JFK, AirFrance, 0),
     FlightInfo(AF1, <<1, 700>>, <<1, 705>>, ORY, CDG, AirFrance, 0),
     FlightInfo(AF1, <<1, 700>>, <<>>, ORY, JFK, AirFrance, 0)}

\* the stage tables as their assets left them, and the empty gold table
InitGold ==
    /\ flights_raw \in Tables(GoldRawRows, MaxFlights)
    /\ now = 2 * OneDay
    /\ flight_df = FlightsCleaned(flights_raw, now)
    /\ flight_df_in = <<>>
    /\ flight_df_arg = <<>>
    /\ pc = "stage"
    /\ weather_cleaned \in Tables(WeatherRows, MaxWeather)
    /\ \E airports \in Tables(AirportRows, MaxAirports) :
            airports_cleaned = clean_airport_data(airports, now)
    /\ airports_df = <<>>
    /\ enriched_df = <<>>
    /\ flights_enriched_weather = <<>>
    /\ flights_enriched = <<>>
    /\ columns = <<>>
    /\ weather_raw = <<>>
    /\ metrics = EmptyBag
    /\ runs = 0
    /\ check_result = NoResult
    /\ ApiIdle
    /\ JobIdle
    /\ RequestIdle
    /\ stage_flights_cleaned = <<>>

\* gold.flight_weather_airport_metrics, a bag of rows: the table takes every
\* row an INSERT gives it, next to the rows it holds
InsertRows(table, rows) == table (+) SetToBag(rows)

\* populate_flight_weather_airport_metrics: INSERT INTO the gold table the
\* rows of the SELECT; the stage tables are read, not written
PopulateMetrics ==
    /\ runs < MaxRuns
    /\ metrics' = InsertRows(metrics, MetricRows(flight_df, weather_cleaned,
                                                 airports_cleaned))
    /\ runs' = runs + 1
    /\ pc' = "gold"
    /\ UNCHANGED <<flightVars, enrichVars, apiVars, jobVars, columns, weather_raw,
                   airports_cleaned, check_result,
                   stage_flights_cleaned,
                   requestVars>>

NextGold == PopulateMetrics

SpecGold == InitGold /\ [][NextGold]_vars

----------------------------------------------------------------------------
(* weather_cleaned *)

MaxHours == 2

\* wind speeds the service may report: two ordinary ones, the threshold
\* and one above it
WindReadings == {10, 20, 50, 60}

WindThreshold == 50

\* raw.weather_raw as weather_raw_init stored it: for each airport of
\* ILE_DE_FRANCE_AIRPORTS in turn its hourly rows of day 1, hour by hour,
\* with wind[a][h] the wind speed at airport a in hour h
WeatherRaw(wind) ==
    [n \in 1..(Len(ILE_DE_FRANCE_AIRPORTS) * MaxHours) |->
        LET a == ((n - 1) \div MaxHours) + 1
            h == ((n - 1) % MaxHours) + 1
        IN  [timestamp        |-> <<1, (h - 1) * 60>>,
             temperature      |-> 15,
             wind_speed       |-> wind[a][h],
             precipitation    |-> 0,
             lat              |-> ILE_DE_FRANCE_AIRPORTS[a].lat,
             lon              |-> ILE_DE_FRANCE_AIRPORTS[a].lon,
             created_at       |-> OneDay,
             source_timestamp |-> <<1>>,
             iata             |-> ILE_DE_FRANCE_AIRPORTS[a].iata]]

\* the columns of the weather table that hold numbers, where a missing
\* value is NaN; the other columns of raw.weather_raw are never missing
WeatherNumericCols ==
    {"temperature_celsius", "wind_speed_kph", "precipitation_mm",
     "latitude", "longitude"}

\* weather_df.loc[weather_df["wind_speed_kph"] > 50, "wind_speed_kph"] = None
NullHighWind(weather_df) ==
    [i \in 1..Len(weather_df) |->
        [weather_df[i] EXCEPT !.wind_speed_kph =
            IF @ # NaN /\ @ > WindThreshold THEN NaN ELSE @]]

\* the row a missing value of column c in row i is filled from: the last
\* row of the frame at or above i that has a value, 0 if there is none
FillFrom(df, i, c) ==
    LET given == {j \in 1..i : df[j][c] # NaN}
    IN  IF given = {} THEN 0 ELSE CHOOSE j \in given : \A k \in given : k <= j

\* DataFrame.fillna(method="ffill"): down each column of the whole frame,
\* in the order of the rows
Ffill(df) ==
    [i \in 1..Len(df) |->
        [c \in DOMAIN df[i] |->
            IF c \in WeatherNumericCols /\ FillFrom(df, i, c) > 0
            THEN df[FillFrom(df, i, c)][c]
            ELSE df[i][c]]]

clean_weather(weather_df, t) ==
    LET filled == Ffill(NullHighWind(weather_df))
    IN  [i \in 1..Len(filled) |->
            [c \in DOMAIN filled[i] \cup {"created_at", "updated_at"} |->
                IF c \in {"created_at", "updated_at"} THEN t ELSE filled[i][c]]]

\* the whole of the asset weather_cleaned
WeatherCleanedOf(raw, t) ==
    standardize_time_columns(
        clean_weather(rename_weather_columns(standardize_column_names(raw)), t),
        {"observation_time"})

InitWeather ==
    /\ \E wind \in [1..Len(ILE_DE_FRANCE_AIRPORTS) -> [1..MaxHours -> WindReadings]] :
            weather_raw = WeatherRaw(wind)
    /\ now = 2 * OneDay
    /\ pc = "weather_raw"
    /\ flights_raw = <<>>
    /\ flight_df = <<>>
    /\ flight_df_in = <<>>
    /\ flight_df_arg = <<>>
    /\ EnrichIdle
    /\ columns = <<>>
    /\ airports_cleaned = <<>>
    /\ metrics = EmptyBag
    /\ runs = 0
    /\ check_result = NoResult
    /\ ApiIdle
    /\ JobIdle
    /\ RequestIdle
    /\ stage_flights_cleaned = <<>>

WeatherCleaned ==
    /\ pc = "weather_raw"
    /\ weather_cleaned' = WeatherCleanedOf(weather_raw, now)
    /\ pc' = "weather_cleaned"
    /\ UNCHANGED <<flightVars, airports_df, enriched_df, flights_enriched_weather,
                   flights_enriched, apiVars, jobVars, stageVars,
                   requestVars>>

NextWeather == WeatherCleaned

SpecWeather == InitWeather /\ [][NextWeather]_vars

----------------------------------------------------------------------------
(* The data-quality checks of flights_cleaned *)

MaxCheckRows == 2

ExcessiveDelay == 1440

EXPECTED_COLUMNS ==
    {"flight_number", "scheduled_departure_time", "actual_departure_time",
     "departure_airport_icao", "arrival_airport_icao", "airline_iata_code"}

\* rows for the checks: scheduled less than a day ago, longer ago or
\* missing; actual 10 minutes or more than a day after it, or missing;
\* with and without an airline code
CheckRows ==
    {[flight_number |-> AF1,
      scheduled_departure_time |-> s,
      actual_departure_time |-> IF late = NaT \/ s = NaT THEN NaT ELSE s + late,
      departure_airport_icao |-> CDG,
      arrival_airport_icao |-> JFK,
      airline_iata_code |-> a,
      is_weekend |-> FALSE] :
        s \in {NaT, 100, OneDay + 700}, late \in {NaT, 10, ExcessiveDelay + 1},
        a \in {<<"A", "F">>, None}}

\* the column labels a table given to a check may have: the expected
\* ones, one more, or one of the checked columns lacking
CheckColumns ==
    {EXPECTED_COLUMNS, EXPECTED_COLUMNS \cup {"is_weekend"}}
        \cup {EXPECTED_COLUMNS \ {c} :
                c \in {"airline_iata_code", "scheduled_departure_time",
                       "actual_departure_time"}}

\* the table df with the columns cols only
Project(df, cols) == [i \in 1..Len(df) |-> [c \in cols |-> df[i][c]]]

AssetCheckResult(name, passed, metadata) ==
    [name |-> name, outcome |-> IF passed THEN "passed" ELSE "failed",
     metadata |-> metadata]

\* the check did not return: the exception left it
Raised(name, exception) ==
    [name |-> name, outcome |-> "raised", metadata |-> [exception |-> exception]]

check_no_null_airline_code(flights_cleaned, cols) ==
    IF "airline_iata_code" \notin cols
    THEN Raised("no_null_airline_code", "KeyError")
    ELSE LET nulls == Cardinality({i \in 1..Len(flights_cleaned) :
                            flights_cleaned[i].airline_iata_code = None})
         IN  AssetCheckResult("no_null_airline_code", nulls = 0,
                              [null_count |-> nulls])

check_schema_of_flights_cleaned(flights_cleaned, cols) ==
    LET missing == EXPECTED_COLUMNS \ cols
        extra == cols \ EXPECTED_COLUMNS
    IN  AssetCheckResult("validate_flights_schema", missing = {} /\ extra = {},
                         [missing |-> missing, extra |-> extra])

\* Series.max(): the greatest value that is not missing, NaT if there is none
SeriesMax(values) ==
    IF values \ {NaT} = {} THEN NaT
    ELSE CHOOSE v \in values \ {NaT} : \A w \in values \ {NaT} : w <= v

check_flights_data_is_fresh(flights_cleaned, cols, t) ==
    IF "scheduled_departure_time" \notin cols
    THEN AssetCheckResult("check_recent_data", FALSE,
                          [error |-> "Missing scheduled_departure_time"])
    ELSE IF flights_cleaned = <<>>
    THEN AssetCheckResult("check_recent_data", FALSE,
                          [error |-> "DataFrame is empty"])
    ELSE LET latest_date ==
                SeriesMax({flights_cleaned[i].scheduled_departure_time :
                            i \in 1..Len(flights_cleaned)})
         IN  IF latest_date = NaT
             THEN AssetCheckResult("check_recent_data", FALSE,
                                   [error |-> "No valid departure times"])
             ELSE AssetCheckResult("check_recent_data",
                                   ~(t - latest_date > OneDay),
                                   [latest_date |-> latest_date])

check_flight_data_not_empty(flights_df) ==
    AssetCheckResult("check_flights_data_not_empty", flights_df # <<>>,
                     [row_count |-> Len(flights_df)])

\* the time columns have the datetime type flights_cleaned gives them, so
\* that the difference of two of them has .dt also when no row is left
check_no_excessive_delays(flights_cleaned, cols) ==
    IF "actual_departure_time" \notin cols
            \/ "scheduled_departure_time" \notin cols
    THEN AssetCheckResult("no_excessive_delays", FALSE,
                          [error |-> "Missing required datetime columns"])
    ELSE LET valid == {i \in 1..Len(flights_cleaned) :
                        /\ flights_cleaned[i].actual_departure_time # NaT
                        /\ flights_cleaned[i].scheduled_departure_time # NaT}
             delay == [i \in valid |->
                        flights_cleaned[i].actual_departure_time
                            - flights_cleaned[i].scheduled_departure_time]
             excessive == {i \in valid : delay[i] > ExcessiveDelay}
         IN  AssetCheckResult("no_excessive_delays", excessive = {},
                [delays_over_24h_count |-> Cardinality(excessive),
                 total_checked |-> Cardinality(valid),
                 max_delay_minutes |->
                    IF valid = {} THEN NaN
                    ELSE CHOOSE d \in {delay[i] : i \in valid} :
                            \A i \in valid : delay[i] <= d])

\* a table for the checks: empty, or up to MaxCheckRows rows, under each
\* set of column labels
InitChecks ==
    /\ columns \in CheckColumns
    /\ \E df \in Tables(CheckRows, MaxCheckRows) : flight_df = Project(df, columns)
    /\ now = 2 * OneDay
    /\ pc = "flights_cleaned"
    /\ flights_raw = <<>>
    /\ flight_df_in = <<>>
    /\ flight_df_arg = <<>>
    /\ EnrichIdle
    /\ weather_raw = <<>>
    /\ airports_cleaned = <<>>
    /\ metrics = EmptyBag
    /\ runs = 0
    /\ check_result = NoResult
    /\ ApiIdle
    /\ JobIdle
    /\ RequestIdle
    /\ stage_flights_cleaned = <<>>

\* each check leaves its result behind and the table as it was
CheckNoNullAirlineCode ==
    /\ check_result' = check_no_null_airline_code(flight_df, columns)
    /\ pc' = "checked"
    /\ UNCHANGED <<flightVars, enrichVars, apiVars, jobVars, columns, weather_raw,
                   airports_cleaned, metrics, runs,
                   stage_flights_cleaned,
                   requestVars>>

CheckSchemaOfFlightsCleaned ==
    /\ check_result' = check_schema_of_flights_cleaned(flight_df, columns)
    /\ pc' = "checked"
    /\ UNCHANGED <<flightVars, enrichVars, apiVars, jobVars, columns, weather_raw,
                   airports_cleaned, metrics, runs,
                   stage_flights_cleaned,
                   requestVars>>

CheckFlightsDataIsFresh ==
    /\ check_result' = check_flights_data_is_fresh(flight_df, columns, now)
    /\ pc' = "checked"
    /\ UNCHANGED <<flightVars, enrichVars, apiVars, jobVars, columns, weather_raw,
                   airports_cleaned, metrics, runs,
                   stage_flights_cleaned,
                   requestVars>>

CheckFlightDataNotEmpty ==
    /\ check_result' = check_flight_data_not_empty(flight_df)
    /\ pc' = "checked"
    /\ UNCHANGED <<flightVars, enrichVars, apiVars, jobVars, columns, weather_raw,
                   airports_cleaned, metrics, runs,
                   stage_flights_cleaned,
                   requestVars>>

CheckNoExcessiveDelays ==
    /\ check_result' = check_no_excessive_delays(flight_df, columns)
    /\ pc' = "checked"
    /\ UNCHANGED <<flightVars, enrichVars, apiVars, jobVars, columns, weather_raw,
                   airports_cleaned, metrics, runs,
                   stage_flights_cleaned,
                   requestVars>>

NextChecks ==
    \/ CheckNoNullAirlineCode
    \/ CheckSchemaOfFlightsCleaned
    \/ CheckFlightsDataIsFresh
    \/ CheckFlightDataNotEmpty
    \/ CheckNoExcessiveDelays

SpecChecks == InitChecks /\ [][NextChecks]_vars

----------------------------------------------------------------------------
(* clean_aviation_data, statement by statement *)

\* the steps of clean_aviation_data with the dedupe before the trimming
CleanStepsDedupeFirst ==
    <<"standardize_column_names", "rename_flight_columns",
      "standardize_time_columns", "drop_future", "drop_duplicates",
      "strip_upper", "drop_missing", "drop_actual_before_scheduled",
      "fill_airline", "stamp">>

\* the steps of clean_aviation_data in the order of its statements
CleanSteps ==
    <<"standardize_column_names", "rename_flight_columns",
      "standardize_time_columns", "drop_future", "strip_upper",
      "drop_missing", "drop_actual_before_scheduled", "fill_airline",
      "drop_duplicates", "stamp">>

\* what one step makes of the table df it is given, at time t
ApplyStep(step, df, t) ==
    CASE step = "standardize_column_names" -> standardize_column_names(df)
      [] step = "rename_flight_columns" -> rename_flight_columns(df)
      [] step = "standardize_time_columns" ->
            standardize_time_columns(df, DatetimeCols)
      [] step = "drop_future" ->
            Filter(df, LAMBDA r : NotFuture(r, LocalDate(t)))
      [] step = "strip_upper" -> UppercaseIds(StripStrings(df))
      [] step = "drop_missing" -> Filter(df, HasCritical)
      [] step = "drop_actual_before_scheduled" ->
            Filter(df, ActualNotBeforeScheduled)
      [] step = "fill_airline" -> FillAirline(df)
      [] step = "drop_duplicates" -> DropColumns(DropDuplicates(df), DroppedCols)
      [] step = "stamp" ->
            SetColumn(SetColumn(df, "created_at", t), "updated_at", t)

\* the number of steps done when the function is at pc
StepsDone(at) ==
    IF at = "called" THEN 0 ELSE CHOOSE k \in 1..Len(CleanSteps) : CleanSteps[k] = at

InitSteps ==
    /\ flights_raw \in Tables(RawRows, MaxFlights)
    /\ now \in NowChoices
    /\ flight_df = flights_raw
    /\ flight_df_in = <<>>
    /\ flight_df_arg = <<>>
    /\ pc = "called"
    /\ EnrichIdle
    /\ ApiIdle
    /\ JobIdle
    /\ RequestIdle
    /\ StageIdle

\* the next statement of clean_aviation_data runs on the table as the
\* statements before it left it
CleanStep ==
    /\ StepsDone(pc) < Len(CleanSteps)
    /\ pc' = CleanSteps[StepsDone(pc) + 1]
    /\ flight_df' = ApplyStep(CleanSteps[StepsDone(pc) + 1], flight_df, now)
    /\ UNCHANGED <<flights_raw, now, flight_df_in, flight_df_arg, enrichVars,
                   apiVars, jobVars, stageVars,
                   requestVars>>

NextSteps == CleanStep

SpecSteps == InitSteps /\ [][NextSteps]_vars

----------------------------------------------------------------------------
(* dev_full_pipeline_job: the assets of the job and what orders them *)

\* the selection of the job
JobAssets ==
    {"create_raw_tables", "aviation_edge_raw", "airports_raw", "weather_raw_init",
     "flights_cleaned", "weather_cleaned", "airports_cleaned",
     "flights_enriched_weather", "flights_enriched_weather_airports",
     "create_metrics_tables", "populate_flight_weather_airport_metrics"}

\* the asset keys an asset declares as upstream: deps=[...] of its decorator
\* and the parameters of its function that name an asset
Upstream ==
    [a \in JobAssets |->
        CASE a \in {"aviation_edge_raw", "airports_raw", "weather_raw_init"} ->
                {"create_postgres_tables"}
          [] a = "flights_cleaned" -> {"aviation_edge_raw"}
          [] a = "weather_cleaned" -> {"weather_raw_init"}
          [] a = "airports_cleaned" -> {"airports_raw"}
          [] a = "flights_enriched_weather" -> {"flights_cleaned", "weather_cleaned"}
          [] a = "flights_enriched_weather_airports" ->
                {"flights_enriched_weather", "airports_cleaned"}
          [] a = "populate_flight_weather_airport_metrics" ->
                {"weather_cleaned", "flights_cleaned", "airports_cleaned"}
          [] OTHER -> {}]

\* the tables an asset creates with execute_schema_sql
Creates ==
    [a \in JobAssets |->
        CASE a = "create_raw_tables" ->
                {"raw.flights_raw", "raw.airports", "raw.weather_raw"}
          [] a = "create_metrics_tables" -> {"gold.flight_weather_airport_metrics"}
          [] OTHER -> {}]

\* the table an asset writes with persist or INSERT, under which its value
\* is passed on as well
Writes ==
    [a \in JobAssets |->
        CASE a = "aviation_edge_raw" -> {"raw.flights_raw"}
          [] a = "airports_raw" -> {"raw.airports"}
          [] a = "weather_raw_init" -> {"raw.weather_raw"}
          [] a = "flights_cleaned" -> {"stage.flights_cleaned"}
          [] a = "weather_cleaned" -> {"stage.weather_cleaned"}
          [] a = "airports_cleaned" -> {"stage.airports_cleaned"}
          [] a = "flights_enriched_weather" -> {"stage.flights_enriched_weather"}
          [] a = "flights_enriched_weather_airports" -> {"stage.flights_enriched"}
          [] a = "populate_flight_weather_airport_metrics" ->
                {"gold.flight_weather_airport_metrics"}
          [] OTHER -> {}]

\* the tables an asset reads, with read_sql, in its SELECT or as the value
\* of an upstream asset
Reads ==
    [a \in JobAssets |->
        CASE a = "flights_cleaned" -> {"raw.flights_raw"}
          [] a = "weather_cleaned" -> {"raw.weather_raw"}
          [] a = "airports_cleaned" -> {"raw.airports"}
          [] a = "flights_enriched_weather" ->
                {"stage.flights_cleaned", "stage.weather_cleaned"}
          [] a = "flights_enriched_weather_airports" ->
                {"stage.flights_enriched_weather", "raw.airports"}
          [] a = "populate_flight_weather_airport_metrics" ->
                {"stage.flights_cleaned", "stage.weather_cleaned",
                 "stage.airports_cleaned"}
          [] OTHER -> {}]

InitJob ==
    /\ flights_raw = <<>>
    /\ now = 0
    /\ flight_df = <<>>
    /\ flight_df_in = <<>>
    /\ flight_df_arg = <<>>
    /\ pc = "job"
    /\ EnrichIdle
    /\ ApiIdle
    /\ JobIdle
    /\ RequestIdle
    /\ StageIdle

\* the run starts an asset once every upstream asset that is part of the
\* run has finished; a key that names no asset of the run holds nothing up
StartAsset ==
    \E a \in JobAssets \ started :
        /\ (Upstream[a] \cap JobAssets) \subseteq finished
        /\ started' = started \cup {a}
        /\ UNCHANGED <<flightVars, pc, enrichVars, apiVars, stageVars, finished,
                   requestVars>>

FinishAsset ==
    \E a \in started \ finished :
        /\ finished' = finished \cup {a}
        /\ UNCHANGED <<flightVars, pc, enrichVars, apiVars, stageVars, started,
                   requestVars>>

NextJob == StartAsset \/ FinishAsset

SpecJob == InitJob /\ [][NextJob]_vars

----------------------------------------------------------------------------
(* PostgresResource.persist and the raw assets that call it *)

\* a persist that writes an empty table as well
persist_also_empty(table, df, procedure) ==
    IF procedure = "replace" THEN df ELSE table \o df

\* persist(df, table_name, schema, procedure): the rows of the target table
\* after the call.  An empty df returns before anything is written; to_sql
\* with if_exists="replace" drops the table and writes the rows of df, with
\* "append" it adds them to the rows the table holds.
persist(table, df, procedure) ==
    IF df = <<>> THEN table
    ELSE IF procedure = "replace" THEN df
    ELSE table \o df

\* runs of the assets that persist
MaxPersistRuns == 4

\* rows of a table handed to persist
MaxPersistRows == 1

\* flights from CDG at day 1 00:20 and at day 3 00:00, the second still to
\* come for a run at day 2
PersistRawRows ==
    {FlightInfo(AF1, <<1, 20>>, <<1, 50>>, CDG, JFK, AirFrance, 0),
     FlightInfo(AF1, <<3, 0>>, <<3, 30>>, CDG, JFK, AirFrance, 0)}

\* what get_aviation_edge_flights may return: no record, or up to
\* MaxPersistRows records
ExtractedFlights == Tables(PersistRawRows, MaxPersistRows)

\* what extract_airports_csv may return: an empty table (so after every
\* error it logs), or rows of the file
ExtractedAirports == Tables(AirportRows, MaxPersistRows)

InitPersist ==
    /\ flights_raw = <<>>
    /\ now = 0
    /\ flight_df = <<>>
    /\ flight_df_in = <<>>
    /\ flight_df_arg = <<>>
    /\ pc = "job"
    /\ EnrichIdle
    /\ ApiIdle
    /\ JobIdle
    /\ RequestIdle
    /\ StageIdle

\* aviation_edge_raw: extract, then persist to raw.flights_raw
AviationEdgeRaw ==
    /\ runs < MaxPersistRuns
    /\ \E dataframe \in ExtractedFlights :
          /\ records' = dataframe
          /\ flights_raw' = persist(flights_raw, dataframe, "replace")
    /\ runs' = runs + 1
    /\ pc' = "aviation_edge_raw"
    /\ UNCHANGED <<now, flight_df, flight_df_in, flight_df_arg, enrichVars,
                   clock, cache, call, status, exc, idx, attempt, response,
                   events, calls, columns, weather_raw, airports_cleaned,
                   metrics, check_result, jobVars,
                   stage_flights_cleaned,
                   requestVars>>

\* airports_raw: extract, then persist to raw.airports
AirportsRaw ==
    /\ runs < MaxPersistRuns
    /\ \E dataframe \in ExtractedAirports :
          /\ records' = dataframe
          /\ airports_df' = persist(airports_df, dataframe, "replace")
    /\ runs' = runs + 1
    /\ pc' = "airports_raw"
    /\ UNCHANGED <<flightVars, weather_cleaned, enriched_df,
                   flights_enriched_weather, flights_enriched,
                   clock, cache, call, status, exc, idx, attempt, response,
                   events, calls, columns, weather_raw, airports_cleaned,
                   metrics, check_result, jobVars,
                   stage_flights_cleaned,
                   requestVars>>

\* flights_cleaned: read raw.flights_raw, transform, then persist to
\* stage.flights_cleaned
FlightsCleanedPersist ==
    /\ runs < MaxPersistRuns
    /\ \E t \in NowChoices :
          /\ now' = t
          /\ flight_df' = FlightsCleaned(flights_raw, t)
          /\ stage_flights_cleaned' =
                persist(stage_flights_cleaned,
                        FlightsCleaned(flights_raw, t), "replace")
    /\ runs' = runs + 1
    /\ pc' = "persisted"
    /\ UNCHANGED <<flights_raw, flight_df_in, flight_df_arg, enrichVars,
                   apiVars, columns, weather_raw, airports_cleaned, metrics,
                   check_result, jobVars,
                   requestVars>>

NextPersist == AviationEdgeRaw \/ AirportsRaw \/ FlightsCleanedPersist

SpecPersist == InitPersist /\ [][NextPersist]_vars

----------------------------------------------------------------------------
(* get_aviation_edge_flights: the dates of its requests *)

MaxDaysBack == 6

\* the days end_date lies behind today
EndDateDaysBack == 4

\* a date is a day of a common year, 1 to 365
DaysInMonth == <<31, 28, 31, 30, 31, 30, 31, 31, 30, 31, 30, 31>>

RECURSIVE MonthDay(_, _)
\* month and day of the month of day d of the year, counting from month m
MonthDay(d, m) ==
    IF d <= DaysInMonth[m] THEN <<m, d>>
    ELSE MonthDay(d - DaysInMonth[m], m + 1)

\* date.isoformat(): year, month and day, in this order
isoformat(d) == <<2025>> \o MonthDay(d, 1)

\* a <= b for two ISO dates: years first, then months, then days
IsoLeq(a, b) ==
    \/ a[1] < b[1]
    \/ a[1] = b[1] /\ a[2] < b[2]
    \/ a[1] = b[1] /\ a[2] = b[2] /\ a[3] <= b[3]

\* datetime.now().date() when end_date is computed: 2 March and 10 March
Todays == {61, 69}

\* datetime.now().date() when start_date is computed, one statement later:
\* the same day, or the next when midnight fell between the two
TodaysAfter(today) == {today, today + 1}

\* the params of the request for one airport
Params(airport_code) ==
    [type |-> "departure", code |-> airport_code,
     date_from |-> isoformat(window.start_date),
     date_to |-> isoformat(window.end_date)]

InitRequests ==
    /\ flights_raw = <<>>
    /\ now = 0
    /\ flight_df = <<>>
    /\ flight_df_in = <<>>
    /\ flight_df_arg = <<>>
    /\ pc = "idle"
    /\ EnrichIdle
    /\ ApiIdle
    /\ StageIdle
    /\ JobIdle
    /\ days_back \in 0..MaxDaysBack
    /\ window = <<>>
    /\ params = <<>>

\* get_aviation_edge_flights is called: it reads the configuration and
\* computes end_date, then start_date
FlightsWindow ==
    /\ pc = "idle"
    /\ calls < MaxCalls
    /\ \E today \in Todays : \E after \in TodaysAfter(today) :
          window' = [end_date |-> today - EndDateDaysBack,
                     start_date |-> after - days_back]
    /\ calls' = calls + 1
    /\ call' = "flights"
    /\ status' = "running"
    /\ exc' = "none"
    /\ idx' = 1
    /\ records' = <<>>
    /\ params' = <<>>
    /\ pc' = "airports"
    /\ UNCHANGED <<clock, cache, attempt, response, events, days_back,
                   flightVars, enrichVars, stageVars, jobVars>>

\* one turn of the loop over the airports: the request is sent with its
\* params, and the flights of the response are appended to all_flights; a
\* RequestException is logged and the loop goes on, a KeyError of the
\* flattening leaves the call.  The attempts, the sleeps and the log lines
\* of the turn are those of the client specification and are left out here.
FlightRequest ==
    /\ pc = "airports"
    /\ params' = Append(params, Params(ConfiguredAirports[idx]))
    /\ \/ /\ records' = records
          /\ NextSubRequest("airports")
       \/ \E flights \in FlightResponses :
             /\ records' = records \o Flattened(flights, clock)
             /\ IF FirstUnreadable(flights) <= Len(flights)
                THEN Raise("KeyError")
                ELSE NextSubRequest("airports")
    /\ UNCHANGED <<clock, cache, call, response, events, calls, days_back,
                   window, flightVars, enrichVars, stageVars, jobVars>>

NextRequests == FlightsWindow \/ FlightRequest

SpecRequests == InitRequests /\ [][NextRequests]_vars

----------------------------------------------------------------------------
(* Properties of the flight transforms *)

Rows(df) == 1..Len(df)

\* the text that a missing code is turned into by astype(str) and upper()
IsMissingCode(code) == code = None \/ code = <<"N", "O", "N", "E">>

\* C1: every row returned by clean_aviation_data has a scheduled time, a
\* departure code and an arrival code (a code missing in the raw input counts
\* as missing), and an actual time, when it has one, not before the
\* scheduled time.
C1_CleanedRowsComplete ==
    pc = "cleaned" =>
        \A i \in Rows(flight_df) :
            /\ flight_df[i].scheduled_departure_time # NaT
            /\ ~IsMissingCode(flight_df[i].departure_airport_icao)
            /\ ~IsMissingCode(flight_df[i].arrival_airport_icao)
            /\ \/ flight_df[i].actual_departure_time = NaT
               \/ flight_df[i].actual_departure_time
                      >= flight_df[i].scheduled_departure_time

\* the rows of df on the route of row r that have an actual time
SameRouteCompleted(df, r) ==
    {j \in Rows(df) :
        /\ df[j].actual_departure_time # NaT
        /\ df[j].departure_airport_icao = r.departure_airport_icao
        /\ df[j].arrival_airport_icao = r.arrival_airport_icao}

Delay(r) == r.actual_departure_time - r.scheduled_departure_time

\* x is the k-th smallest delay of the rows J of df
IsKthDelay(df, J, k, x) ==
    /\ \E j \in J : Delay(df[j]) = x
    /\ Cardinality({j \in J : Delay(df[j]) < x}) < k
    /\ Cardinality({j \in J : Delay(df[j]) <= x}) >= k

\* m is the median of the delays of the rows J of df
IsMedianDelay(df, J, m) ==
    LET n == Cardinality(J)
    IN  \E lo, hi \in {Delay(df[j]) : j \in J} :
            /\ IsKthDelay(df, J, (n + 1) \div 2, lo)
            /\ IsKthDelay(df, J, n \div 2 + 1, hi)
            /\ 2 * m = lo + hi

\* C2: impute_missing_actual_times gives a row without an actual time its
\* scheduled time plus the median delay of the rows of the same route that
\* have an actual time, and leaves it without one when the route has no
\* such row.
C2_ImputedFromRouteMedian ==
    pc = "imputed" =>
        /\ Len(flight_df) = Len(flight_df_in)
        /\ \A i \in Rows(flight_df_in) :
            flight_df_in[i].actual_departure_time = NaT =>
                LET J == SameRouteCompleted(flight_df_in, flight_df_in[i])
                IN  IF J = {} THEN flight_df[i].actual_departure_time = NaT
                    ELSE /\ flight_df[i].actual_departure_time # NaT
                         /\ IsMedianDelay(flight_df_in, J,
                                flight_df[i].actual_departure_time
                                  - flight_df_in[i].scheduled_departure_time)

\* a row without an actual time on a route with delays of 30 and 50 minutes
\* has received its scheduled time plus 40 minutes
C2_Witness ==
    /\ pc = "imputed"
    /\ \E i \in Rows(flight_df_in) :
        /\ flight_df_in[i].actual_departure_time = NaT
        /\ {Delay(flight_df_in[j]) :
                j \in SameRouteCompleted(flight_df_in, flight_df_in[i])} = {30, 50}
        /\ flight_df[i].actual_departure_time
              = flight_df[i].scheduled_departure_time + 40

\* the number of rows of df equal to r
Count(df, r) == Cardinality({i \in Rows(df) : df[i] = r})

\* out holds rows of df in the order of df
IsSubTable(out, df) ==
    \E at \in [Rows(out) -> Rows(df)] :
        /\ \A i \in Rows(out) : df[at[i]] = out[i]
        /\ \A i, j \in Rows(out) : i < j => at[i] < at[j]

\* C3: remove_cancelled_flights removes exactly the rows without an actual
\* time that were scheduled more than one day before now, and keeps every
\* other row as it was, in order.
C3_RemovesExactlyCancelled ==
    pc = "filtered" =>
        /\ IsSubTable(flight_df, flight_df_in)
        /\ \A i \in Rows(flight_df_in) :
            LET r == flight_df_in[i]
            IN  IF /\ r.actual_departure_time = NaT
                   /\ now - r.scheduled_departure_time > OneDay
                THEN Count(flight_df, r) = 0
                ELSE Count(flight_df, r) = Count(flight_df_in, r)

\* one call removes a row scheduled two days ago and keeps a row scheduled
\* 12 hours ago, both without an actual time
C3_Witness ==
    /\ pc = "filtered"
    /\ \E i \in Rows(flight_df_in) :
        /\ flight_df_in[i].actual_departure_time = NaT
        /\ now - flight_df_in[i].scheduled_departure_time = 2 * OneDay
        /\ Count(flight_df, flight_df_in[i]) = 0
    /\ \E i \in Rows(flight_df) :
        /\ flight_df[i].actual_departure_time = NaT
        /\ now - flight_df[i].scheduled_departure_time = OneDay \div 2

----------------------------------------------------------------------------
(* Properties of the enrichment joins *)

\* the output row o carries every column of the input row f, unchanged
Extends(o, f) == \A c \in DOMAIN f : c \in DOMAIN o /\ o[c] = f[c]

WeatherValueCols ==
    {"temperature_celsius", "wind_speed_kph", "precipitation_mm", "latitude",
     "longitude"}

\* the output row o carries the observation w
CarriesWeather(o, w) == \A c \in WeatherValueCols : o[c] = w[c]

\* the join condition as specified, case-insensitive on the airport code
WeatherMatches(f, w) ==
    /\ f.rounded_scheduled_hour = w.observation_time
    /\ StrUpper(f.departure_airport_icao) = StrUpper(w.airport_iata_code)

\* C4: enrich_with_weather returns one row for each (flight, weather) pair
\* whose rounded scheduled hour equals the observation time and whose
\* uppercased airport codes are equal, and no other row; a flight without
\* such a weather row is not in the output.
C4_InnerJoinOnHourAndAirport ==
    pc = "enriched_weather" =>
        /\ Len(enriched_df) =
              Cardinality({p \in Rows(flight_df) \X Rows(weather_cleaned) :
                  WeatherMatches(flight_df[p[1]], weather_cleaned[p[2]])})
        /\ \A k \in Rows(enriched_df) :
              \E i \in Rows(flight_df), j \in Rows(weather_cleaned) :
                  /\ WeatherMatches(flight_df[i], weather_cleaned[j])
                  /\ Extends(enriched_df[k], flight_df[i])
                  /\ CarriesWeather(enriched_df[k], weather_cleaned[j])
        /\ \A i \in Rows(flight_df), j \in Rows(weather_cleaned) :
              WeatherMatches(flight_df[i], weather_cleaned[j]) =>
                  \E k \in Rows(enriched_df) :
                      /\ Extends(enriched_df[k], flight_df[i])
                      /\ CarriesWeather(enriched_df[k], weather_cleaned[j])
        /\ \A i \in Rows(flight_df) :
              (\A j \in Rows(weather_cleaned) :
                    ~WeatherMatches(flight_df[i], weather_cleaned[j]))
              => \A k \in Rows(enriched_df) : ~Extends(enriched_df[k], flight_df[i])

\* one call joins a CDG flight with the observation stored under "cdg" and
\* drops another flight that has no observation
C4_Witness ==
    /\ pc = "enriched_weather"
    /\ \E i \in Rows(flight_df), j \in Rows(weather_cleaned) :
        /\ WeatherMatches(flight_df[i], weather_cleaned[j])
        /\ flight_df[i].departure_airport_icao # weather_cleaned[j].airport_iata_code
        /\ \E k \in Rows(enriched_df) : Extends(enriched_df[k], flight_df[i])
    /\ \E i \in Rows(flight_df) :
        \A k \in Rows(enriched_df) : ~Extends(enriched_df[k], flight_df[i])

AirportValueCols ==
    {"airport_name", "city", "country", "icao", "latitude", "longitude"}

\* the columns c \o suffix of o hold the metadata of the airport `code`:
\* those of a row of the airport table with that code, or nothing when the
\* table has no such row
AirportJoined(o, code, Col(_)) ==
    IF \E a \in Rows(airports_df) : airports_df[a].iata_code = code
    THEN \E a \in Rows(airports_df) :
            /\ airports_df[a].iata_code = code
            /\ \A c \in AirportValueCols : o[Col(c)] = airports_df[a][c]
    ELSE \A c \in AirportValueCols :
            o[Col(c)] = IF c \in NumericCols THEN NaN ELSE None

\* the name under which enrich_with_airports returns column c of the
\* departure airport: latitude and longitude are columns of the flights too
DepartureCol(c) == IF c \in NumericCols THEN c \o "_departure_airport" ELSE c
ArrivalCol(c) == c \o "_arrival_airport"

\* C5: enrich_with_airports returns every input flight row, with the
\* metadata of its departure airport and of its arrival airport joined by
\* code, each on its own, and with missing metadata where the airport table
\* has no row for the code.
C5_LeftJoinKeepsFlights ==
    pc = "enriched_airports" =>
        /\ \A i \in Rows(flights_enriched_weather) :
              Cardinality({k \in Rows(flights_enriched) :
                    Extends(flights_enriched[k], flights_enriched_weather[i])})
              >= Count(flights_enriched_weather, flights_enriched_weather[i])
        /\ \A k \in Rows(flights_enriched) :
              /\ \E i \in Rows(flights_enriched_weather) :
                    Extends(flights_enriched[k], flights_enriched_weather[i])
              /\ AirportJoined(flights_enriched[k],
                               flights_enriched[k].departure_airport_icao,
                               DepartureCol)
              /\ AirportJoined(flights_enriched[k],
                               flights_enriched[k].arrival_airport_icao,
                               ArrivalCol)

\* a flight is returned with the metadata of its departure airport and
\* without metadata for its arrival airport, which the table does not hold
C5_Witness ==
    /\ pc = "enriched_airports"
    /\ \E k \in Rows(flights_enriched) :
        /\ flights_enriched[k].airport_name # None
        /\ flights_enriched[k].airport_name_arrival_airport = None
        /\ \A a \in Rows(airports_df) :
              airports_df[a].iata_code # flights_enriched[k].arrival_airport_icao

----------------------------------------------------------------------------
(* Properties of the API client *)

\* the positions in the trace of the attempts of sub-request k
GetsOf(k) ==
    {e \in 1..Len(events) : events[e].kind = "get" /\ events[e].req = k}

FailedGetsOf(k) == {e \in GetsOf(k) : ~events[e].ok}

\* the sub-requests the running or last call has started
Started == IF call = "none" THEN {} ELSE 1..idx

\* C6: _make_request makes at most 3 attempts for one request, waits one
\* second between two consecutive attempts, makes no attempt after a
\* successful one and hands its JSON to the caller, and raises to its caller
\* when the third attempt has failed; the caller gets a value only from a
\* successful attempt.
C6_BoundedRetries ==
    \A k \in Started :
        /\ Cardinality(GetsOf(k)) <= MaxAttempts
        /\ \A e \in GetsOf(k) :
              /\ events[e].ok => \A later \in GetsOf(k) : later <= e
              /\ (~events[e].ok /\ \E later \in GetsOf(k) : later > e) =>
                    /\ e + 2 \in GetsOf(k)
                    /\ events[e + 1].kind = "backoff"
                    /\ events[e + 1].secs = RetryWait
                    /\ events[e + 2].at - events[e].at = RetryWait
        /\ Cardinality(FailedGetsOf(k)) = MaxAttempts =>
              status = "raised" /\ exc = "RetryError"
        /\ (k < idx \/ pc = "process" \/ status = "returned") =>
              \E e \in GetsOf(k) : events[e].ok
        /\ (k = idx /\ pc = "process") =>
              /\ events[Len(events)].kind = "get"
              /\ events[Len(events)].ok
              /\ response \in Responses(call)

\* a request succeeded at its third attempt, after two waits, and a later
\* request of the same call failed three times and raised
C6_Witness ==
    /\ status = "raised"
    /\ exc = "RetryError"
    /\ Cardinality(FailedGetsOf(idx)) = MaxAttempts
    /\ \E k \in Started :
          /\ Cardinality(GetsOf(k)) = MaxAttempts
          /\ Cardinality(FailedGetsOf(k)) = MaxAttempts - 1

\* C7: when the request for one airport fails at every attempt,
\* get_aviation_edge_flights logs the failure, goes on with the other
\* airports and does not raise.
C7_FailedAirportSkipped ==
    \A k \in Started :
        (call = "flights" /\ Cardinality(FailedGetsOf(k)) = MaxAttempts) =>
            /\ status # "raised"
            /\ \E e \in 1..Len(events) :
                  events[e].kind = "error" /\ events[e].req = k

\* a response with status 200 that lacks a field the client reads
LacksField(c, json) ==
    IF c = "flights"
    THEN \E k \in 1..Len(json) : ~Readable(json[k])
    ELSE \/ "hourly" \notin DOMAIN json
         \/ ~(HourlyKeys \subseteq DOMAIN json.hourly)

\* C8: a response that lacks a field the client reads gives a warning and an
\* empty result for its sub-request, and the fetch does not raise.
C8_MissingFieldsDegrade ==
    (call # "none" /\ pc # "process" /\ response # <<>>
        /\ LacksField(call, response)
        /\ \E e \in GetsOf(idx) : events[e].ok) =>
            /\ exc # "KeyError"
            /\ \E e \in 1..Len(events) :
                  events[e].kind = "warning" /\ events[e].req = idx

\* the rate-limit delay configured for a call
ConfiguredDelay(c) ==
    IF c = "flights" THEN AviationRateLimitDelay ELSE WeatherRateLimitDelay

Min(S) == CHOOSE x \in S : \A y \in S : x <= y

Max(S) == CHOOSE x \in S : \A y \in S : x >= y

\* C9: between the last request of one sub-request and the first request of
\* the next one of the same call, the client sleeps for the configured
\* rate-limit delay, whatever the earlier sub-request gave.
C9_RateLimitBetweenSubRequests ==
    \A k \in Started :
        (k + 1 \in Started /\ GetsOf(k + 1) # {}) =>
            LET last  == Max(GetsOf(k))
                first == Min(GetsOf(k + 1))
            IN  /\ \E e \in (last + 1)..(first - 1) :
                      /\ events[e].kind = "rate_limit"
                      /\ events[e].secs = ConfiguredDelay(call)
                /\ events[first].at - events[last].at >= ConfiguredDelay(call)

\* the first weather sub-request gave a warning and no rows, and the second
\* one was requested
C9_Witness ==
    /\ call = "weather"
    /\ GetsOf(2) # {}
    /\ \E e \in 1..Len(events) : events[e].kind = "warning" /\ events[e].req = 1

\* the attempt the step appends to the trace, if it makes one
MakesAttempt ==
    /\ Len(events') > Len(events)
    /\ events'[Len(events) + 1].kind = "get"

\* C10: a weather request is answered from the cache, without contacting the
\* remote service, exactly when an earlier successful request with the same
\* URL and parameters stored its response less than the TTL ago, in this
\* call or in an earlier one; a successful remote weather request stores its
\* response; a flight request always contacts the remote service and leaves
\* the cache alone.
C10_WeatherCachedWithTtl ==
    [][MakesAttempt =>
        LET get == events'[Len(events) + 1]
            key == CacheKey(idx, Today(clock))
        IN  IF call = "flights"
            THEN get.remote /\ cache' = cache
            ELSE /\ ~get.remote <=>
                        /\ key \in DOMAIN cache
                        /\ clock - cache[key].at < TtlCacheSeconds * 10
                 /\ ~get.remote => response' = cache[key].json /\ cache' = cache
                 /\ (get.remote /\ get.ok) =>
                        /\ key \in DOMAIN cache'
                        /\ cache'[key] = [at |-> clock, json |-> response']
    ]_vars

\* in a second call, the first weather request was answered by the remote
\* service, its response of the first call having expired, and the second
\* one from the cache, which holds its response since the first call
C10_Witness ==
    /\ calls = 2
    /\ call = "weather"
    /\ clock >= TtlCacheSeconds * 10
    /\ \E e \in GetsOf(1) : events[e].remote /\ events[e].ok
    /\ \E e \in GetsOf(2) :
          /\ ~events[e].remote
          /\ cache[CacheKey(2, Today(clock))].at < TtlCacheSeconds * 10

-----------------------------------------------------------------------------
(* Properties of the flattening of flight records *)

\* a departure time of a record of the flight API, <<>> when it gives none
DepartureTime(f, key) ==
    IF key \in DOMAIN f.departure THEN f.departure[key] ELSE <<>>

\* the row carries the values of the nested record
CarriesNested(row, f) ==
    /\ row.flight_number = f.flight.number
    /\ row.airline = f.airline.name
    /\ row.est_departure_icao = f.departure.iataCode
    /\ row.est_arrival_icao = f.arrival.iataCode
    /\ row.scheduled_time = DepartureTime(f, "scheduledTime")
    /\ row.estimated_time = DepartureTime(f, "estimatedTime")
    /\ row.actual_time = DepartureTime(f, "actualTime")

\* C11: when get_aviation_edge_flights has read the response for an airport,
\* its result holds, after the rows of the earlier airports, one row per
\* record of the response, in the order of the response, each with the
\* values of the nested record in its flattened columns; and it returns only
\* after the last configured airport.
C11_FlattenedRowsCarryNestedValues ==
    [][(pc = "process" /\ call = "flights" /\ status' # "raised") =>
        /\ Len(records') = Len(records) + Len(response)
        /\ \A k \in 1..Len(records) : records'[k] = records[k]
        /\ \A k \in 1..Len(response) :
              CarriesNested(records'[Len(records) + k], response[k])
        /\ status' = "returned" => idx = Len(ConfiguredAirports)
    ]_vars

\* the call returned four rows, two for each airport, the second of each
\* without an actual time
C11_Witness ==
    /\ call = "flights"
    /\ status = "returned"
    /\ Len(records) = 2 * Len(ConfiguredAirports)
    /\ records[1].flight_number = AF1
    /\ records[1].actual_time # <<>>
    /\ records[2].actual_time = <<>>
    /\ records[4].est_arrival_icao = JFK

-----------------------------------------------------------------------------
(* Further properties of clean_aviation_data *)

\* C12: every row returned by clean_aviation_data has a flight_date, and the
\* Europe/Paris date of it is not later than the Europe/Paris date of the
\* time of the call.
C12_NoFutureFlightDate ==
    pc = "cleaned" =>
        \A i \in Rows(flight_df) :
            /\ flight_df[i].flight_date # NaT
            /\ (flight_df[i].flight_date + ParisOffset) \div OneDay
                  <= (now + ParisOffset) \div OneDay

\* the raw table held a row dated after the day of the call and a row dated
\* before it; the first is not returned, the second is
C12_Witness ==
    /\ pc = "cleaned"
    /\ \E i \in Rows(flights_raw) :
          /\ flights_raw[i].flight_date # <<>>
          /\ flights_raw[i].flight_date[1] * OneDay > now
    /\ Len(flight_df) >= 1
    /\ \A i \in Rows(flight_df) : flight_df[i].flight_date <= now

----------------------------------------------------------------------------
(* Properties of standardize_column_names *)

\* a column name in standard form: no upper-case letter, no blank, no
\* whitespace at either end
IsStandard(name) ==
    /\ \A i \in 1..Len(name) :
          /\ name[i] # " "
          /\ ~\E k \in 1..Len(UpperChars) : UpperChars[k] = name[i]
    /\ name # <<>> => (name[1] \notin Whitespace /\ name[Len(name)] \notin Whitespace)

\* C13: standardize_column_names is idempotent: what it returns has every
\* name in standard form, a second application to that changes no name, and
\* an application to a table whose names are all in standard form changes
\* no name.
C13_StandardizeIdempotent ==
    [][/\ \A i \in 1..Len(columns') : IsStandard(columns'[i])
       /\ pc = "names_once" => columns' = columns
       /\ (\A i \in 1..Len(columns) : IsStandard(columns[i])) => columns' = columns
    ]_vars

\* the function was applied twice to a table whose first name it changed
\* the first time, putting an underscore for a blank
C13_Witness ==
    /\ pc = "names_twice"
    /\ columns[1] = <<"a", "_", "a">>

----------------------------------------------------------------------------
(* Properties of the gold metrics *)

\* the joined rows that the SELECT aggregates into the metric row m
GroupOf(m) ==
    SelectSeq(Joined(flight_df, weather_cleaned, airports_cleaned),
              LAMBDA r : GroupKey(r) = <<m.flight_day, m.airport_name,
                                         m.departure_airport_icao_code,
                                         m.airline_name, m.airline_iata_code>>)

\* C14: however often populate_flight_weather_airport_metrics has run, the
\* gold table holds at most one row for a flight day, a departure airport
\* and an airline.
C14_OneRowPerDayAirportAirline ==
    \A m1 \in BagToSet(metrics) :
        /\ CopiesIn(m1, metrics) = 1
        /\ \A m2 \in BagToSet(metrics) :
              (/\ m1.flight_day = m2.flight_day
               /\ m1.departure_airport_icao_code = m2.departure_airport_icao_code
               /\ m1.airline_iata_code = m2.airline_iata_code) => m1 = m2

\* C15: a flight is flagged, and counted in the metrics, as a night flight
\* exactly when the hour of its scheduled departure is one of 0 to 5; a
\* flight of hour 6 is a day flight.
C15_NightIsHourBeforeSix ==
    /\ \A i \in 1..Len(flight_df) :
          flight_df[i].is_night_flight
              <=> LocalHour(flight_df[i].scheduled_departure_time) \in 0..5
    /\ \A m \in BagToSet(metrics) :
          LET G == GroupOf(m)
              night == {n \in 1..Len(G) :
                          LocalHour(G[n].f.scheduled_departure_time) \in 0..5}
          IN  /\ m.night_flight_count = Cardinality(night)
              /\ m.day_flight_count = Len(G) - Cardinality(night)

\* C16: in every metric row whose group has a flight with an actual
\* departure time, avg_delay_min is the average of actual - scheduled over
\* those flights and on_time_percent is the percentage of them with a delay
\* of at most 15 minutes: the flights of the group without an actual
\* departure time change neither value.
C16_DelayMetricsIgnoreMissingActual ==
    \A m \in BagToSet(metrics) :
        LET timed == SelectSeq(GroupOf(m),
                               LAMBDA r : r.f.actual_departure_time # NaT)
            delay == [n \in 1..Len(timed) |->
                        timed[n].f.actual_departure_time
                            - timed[n].f.scheduled_departure_time]
            on_time == {n \in 1..Len(timed) : delay[n] <= 15}
        IN  timed # <<>> =>
                /\ m.avg_delay_min = RoundDiv(100 * SumSeq(delay), Len(timed))
                /\ m.on_time_percent
                      = RoundDiv(10000 * Cardinality(on_time), Len(timed))

----------------------------------------------------------------------------
(* Properties of weather_cleaned *)

\* the rows of the raw table with a reading at or below the threshold, at
\* the airport of row i and before it in time
PriorValid(raw, i) ==
    {j \in 1..Len(raw) :
        /\ raw[j].iata = raw[i].iata
        /\ ToDatetime(raw[j].timestamp) < ToDatetime(raw[i].timestamp)
        /\ raw[j].wind_speed <= WindThreshold}

\* C17: after clean_weather no wind speed is above 50; a reading at or
\* below 50 is as it was; a reading above 50 has become the latest earlier
\* reading of the same airport that is at or below 50, and is missing when
\* that airport has no such earlier reading.
C17_HighWindFilledFromOwnSeries ==
    pc = "weather_cleaned" =>
        /\ Len(weather_cleaned) = Len(weather_raw)
        /\ \A i \in 1..Len(weather_raw) :
              LET was == weather_raw[i].wind_speed
                  is  == weather_cleaned[i].wind_speed_kph
                  prior == PriorValid(weather_raw, i)
                  last == CHOOSE j \in prior : \A k \in prior :
                            ToDatetime(weather_raw[k].timestamp)
                                <= ToDatetime(weather_raw[j].timestamp)
              IN  /\ is = NaN \/ is <= WindThreshold
                  /\ was <= WindThreshold => is = was
                  /\ (was > WindThreshold /\ prior = {}) => is = NaN
                  /\ (was > WindThreshold /\ prior # {})
                        => is = weather_raw[last].wind_speed

----------------------------------------------------------------------------
(* Properties of the data-quality checks *)

\* C18: every data-quality check returns a result, passed or failed, with
\* metadata, and never raises: for the empty table, for a table that lacks
\* the column the check reads and for a table whose times are all missing
\* too.
C18_ChecksNeverRaise ==
    check_result.name # "none" =>
        /\ check_result.outcome \in {"passed", "failed"}
        /\ DOMAIN check_result.metadata # {}

----------------------------------------------------------------------------
(* Properties of the order of clean_aviation_data *)

\* the order of the steps as specified
SpecifiedOrder ==
    <<"standardize_column_names", "rename_flight_columns",
      "standardize_time_columns", "drop_future", "strip_upper",
      "drop_missing", "drop_actual_before_scheduled", "fill_airline",
      "drop_duplicates", "stamp">>

\* C19: clean_aviation_data applies its steps in the specified order
\* (normalize names, rename, localize timestamps, drop future rows,
\* trim/uppercase, drop rows missing a critical field, drop rows with actual
\* before scheduled, fill the airline sentinel, deduplicate, stamp), each on
\* the result of the one before: the first step done is the first of the
\* order, every later one is the successor of the one done before it, and
\* after the last the table is what the function returns for the raw table.
C19_StepsInSpecifiedOrder ==
    /\ [][\/ (pc = "called" /\ pc' = SpecifiedOrder[1])
          \/ \E k \in 1..(Len(SpecifiedOrder) - 1) :
                pc = SpecifiedOrder[k] /\ pc' = SpecifiedOrder[k + 1]]_vars
    /\ [](pc = SpecifiedOrder[Len(SpecifiedOrder)]
            => flight_df = clean_aviation_data(flights_raw, now))

\* all steps are done on two raw rows that differ in the spelling of the
\* departure airport only; trimmed and upper-cased before the dedupe, they
\* have become one row
C19_Witness ==
    /\ pc = "stamp"
    /\ flights_raw = <<FlightInfo(AF1, <<1, 0>>, <<1, 30>>, CDG, JFK, AirFrance, 0),
                       FlightInfo(AF1, <<1, 0>>, <<1, 30>>, <<" ", "c", "d", "g">>,
                                  JFK, AirFrance, 0)>>
    /\ Len(flight_df) = 1

----------------------------------------------------------------------------
(* Properties of the transforms as functions *)

\* C20: each transform is a pure function of its input table: after the
\* call the table that was passed in has the columns and the values it had
\* before the call.
C20_TransformsLeaveInputsUnchanged ==
    pc \in {"cleaned", "imputed", "filtered", "flagged", "flights_cleaned"}
        => flight_df_arg = flight_df_in

----------------------------------------------------------------------------
(* Properties of the airline fields and of the dedupe *)

\* the values of column col that the raw table gives, trimmed
GivenTexts(raw, col) ==
    {LStrip(RStrip(raw[j][col])) : j \in {k \in 1..Len(raw) : raw[k][col] # None}}

\* C21: in every row returned by clean_aviation_data the airline name and
\* the airline IATA code are not missing, and each is either a value the raw
\* table gave or, where the raw table gave none, the sentinel "undefined".
C21_MissingAirlineIsUndefined ==
    pc = "cleaned" =>
        \A i \in 1..Len(flight_df) :
            /\ flight_df[i].airline_name # None
            /\ flight_df[i].airline_iata_code # None
            /\ flight_df[i].airline_name
                    \in GivenTexts(flights_raw, "airline") \cup {Undefined}
            /\ flight_df[i].airline_iata_code
                    \in GivenTexts(flights_raw, "airline_iata") \cup {Undefined}


\* the columns of a cleaned row that describe the flight
FlightFields ==
    {"flight_number", "flight_date", "flight_icao", "departure_airport_icao",
     "arrival_airport_icao", "scheduled_departure_time",
     "estimated_departure_time", "actual_departure_time", "airline_name",
     "airline_icao_code", "airline_iata_code"}

\* C22: clean_aviation_data returns no flight record twice: no two of its
\* rows agree on every flight field, also when the raw table held the
\* record several times with different created_at.
C22_NoDuplicateFlights ==
    pc = "cleaned" =>
        \A i, j \in 1..Len(flight_df) :
            (\A c \in FlightFields : flight_df[i][c] = flight_df[j][c]) => i = j

----------------------------------------------------------------------------
(* Properties of the job *)

\* C23: an asset of the job has started only after every other asset that
\* creates or writes a table it reads or writes has finished: extraction
\* before cleaning, cleaning before enrichment and aggregation, the creation
\* of a table before the first write to it.
C23_StagesRunInOrder ==
    \A a \in started :
        \A b \in JobAssets \ {a} :
            ((Creates[b] \cup Writes[b]) \cap (Reads[a] \cup Writes[a]) # {})
                => b \in finished

----------------------------------------------------------------------------
(* Properties of the actual times along flights_cleaned *)

\* C24: after clean_aviation_data, after impute_missing_actual_times and
\* after remove_cancelled_flights, every row with an actual departure time
\* has it at or after its scheduled time; the imputation leaves the actual
\* time of a row that had one as it was and gives no row an actual time
\* before its scheduled time.
C24_ActualNotBeforeScheduledKept ==
    /\ [](pc \in {"cleaned", "imputed", "filtered"} =>
            \A i \in 1..Len(flight_df) :
                \/ flight_df[i].actual_departure_time = NaT
                \/ flight_df[i].actual_departure_time
                        >= flight_df[i].scheduled_departure_time)
    /\ [][pc = "cleaned" =>
            /\ Len(flight_df') = Len(flight_df)
            /\ \A i \in 1..Len(flight_df) :
                  flight_df[i].actual_departure_time # NaT =>
                      flight_df'[i].actual_departure_time
                          = flight_df[i].actual_departure_time]_vars

\* the cancelled flights are removed from a table in which a row got its
\* actual time from the imputation, after its scheduled time, and is kept
C24_Witness ==
    /\ pc = "filtered"
    /\ \E i \in 1..Len(flight_df_in) : \E j \in 1..Len(flight_df) :
          /\ flight_df[j] = flight_df_in[i]
          /\ flight_df[j].actual_departure_time
                > flight_df[j].scheduled_departure_time
          /\ clean_aviation_data(flights_raw, now)[i].actual_departure_time = NaT

----------------------------------------------------------------------------
(* Properties of persist *)

\* C25: persist with an empty table writes nothing, also under "replace":
\* after a run of an asset whose extraction or cleaning gave no rows the
\* target table holds the rows it held before, and after a run that gave at
\* least one row it holds exactly the rows of that run; the tables of the
\* other assets are left alone.
C25_EmptyPersistWritesNothing ==
    [][/\ pc' = "aviation_edge_raw" =>
            /\ records' = <<>> => flights_raw' = flights_raw
            /\ records' # <<>> => flights_raw' = records'
            /\ airports_df' = airports_df
            /\ stage_flights_cleaned' = stage_flights_cleaned
       /\ pc' = "airports_raw" =>
            /\ records' = <<>> => airports_df' = airports_df
            /\ records' # <<>> => airports_df' = records'
            /\ flights_raw' = flights_raw
            /\ stage_flights_cleaned' = stage_flights_cleaned
       /\ pc' = "persisted" =>
            /\ flight_df' = <<>> =>
                    stage_flights_cleaned' = stage_flights_cleaned
            /\ flight_df' # <<>> => stage_flights_cleaned' = flight_df'
            /\ flights_raw' = flights_raw
            /\ airports_df' = airports_df]_vars

\* the run of aviation_edge_raw extracted nothing and raw.flights_raw still
\* holds the row of an earlier run; the cleaning run before it gave no row
\* and stage.flights_cleaned still holds the row of the cleaning run before
C25_Witness ==
    /\ pc = "aviation_edge_raw"
    /\ records = <<>>
    /\ Len(flights_raw) = 1
    /\ flight_df = <<>>
    /\ Len(stage_flights_cleaned) = 1

----------------------------------------------------------------------------
(* Properties of the flight requests *)

\* C26: whatever days_back >= 0 is configured, every flight request
\* get_aviation_edge_flights sends has date_from <= date_to.
C26_RequestWindowOrdered ==
    \A k \in 1..Len(params) : IsoLeq(params[k].date_from, params[k].date_to)

====
